---- MODULE Spec2Model ----
(***************************************************************************)
(* A model of the dungeon-master skeleton (src/src/main.py): the Director  *)
(* (DM) with its scene cursor, the Party, the Story Graph, the Game State  *)
(* Snapshot and its JSON persistence, and the Dice Roller.                 *)
(*                                                                         *)
(* Python exceptions are modelled by their class name in the "err" field   *)
(* of the record of the last operation: RuntimeError is the spec's         *)
(* NotStarted, the ValueError of roll is InvalidDiceExpression, the         *)
(* TypeError of GameState.from_dict is SnapshotFormatError.                *)
(***************************************************************************)
EXTENDS Integers, Sequences, FiniteSets, TLC

VARIABLES
    dm,      \* the Director: its dice, party, story and current_scene_idx
    run,     \* history: the play_next calls and wins since start(), while
             \* nothing but play_next was called (calls = -1 otherwise),
             \* and whether start() was called or a load() returned
    file,    \* the document at the save path
    saved,   \* history: the Director at the moment of the last save()
    last,    \* the last operation, its exception and what it printed
    roller,  \* the generator state of a stand-alone DiceRoller
    rolled,  \* the expression given to the stand-alone roller, its result
    bench,   \* two DiceRollers of one seed, given one script of rolls
    census,  \* a Party and the answer of its any_alive()
    cli,     \* the interactive loop of adapters/cli.py
    share,   \* two Directors, and Characters with the objects they hold
    hero,    \* a Character of models/character.py
    build    \* the interpreter, and the exception that ended the program's import

vars == <<dm, run, file, saved, last, roller, rolled, bench, census, cli,
          share, hero, build>>

\* The variables outside the session of one Director.
apart == <<bench, census, cli, share, hero>>

\* ------------------------------------------------------------------ bounds

\* The longest story a session of Spec is started on (goblin_caves.yml, the
\* one story of the content directory, has three scenes: GoblinCaves).
MaxScenes == 2

\* The largest party the character-creation step builds.
MaxParty == 1

\* The largest seed given to a stand-alone DiceRoller.
MaxSeed == 1

\* The most words of its generator a Director's session takes.
MaxSpent == 2

\* The longest dice expression handed to roll in SpecDice.
MaxLen == 5

\* Saturation point of the observation counters (one more than any story).
MaxCalls == MaxScenes + 2
MaxRolls == 3
MaxMembers == 3
MaxChars == 2
MaxLoot == 1
MaxLevel == 9

\* ------------------------------------------------------------- python bits

Min(a, b) == IF a <= b THEN a ELSE b

\* list[i] of Python is defined for -n <= i < n.
PyIndexOk(i, n) == -n <= i /\ i < n

PyIndex(s, i) == IF i >= 0 THEN s[i + 1] ELSE s[Len(s) + i + 1]

\* s[i] + ... + s[j], by halves (a list of rolls can be thousands long).
RECURSIVE SumRange(_, _, _)
SumRange(s, i, j) ==
    IF i > j THEN 0
    ELSE IF i = j THEN s[i]
    ELSE LET m == (i + j) \div 2 IN SumRange(s, i, m) + SumRange(s, m + 1, j)

\* sum(s) of a list of integers.
SumSeq(s) == SumRange(s, 1, Len(s))

\* --------------------------------------------------------------- the dice

\* random.Random(seed) is the Mersenne Twister: a stream of 32-bit words
\* fixed by the seed.  MTWords[seed + 1] holds the top WordBits bits of the
\* first words of the stream for the seeds 0, 1 and 2.
MTWords == <<
    <<
     14167047, 6463343, 12716364, 14935814, 7056020, 679215, 4343902,
     16197812, 8577766, 8152513, 6793667, 15405415, 13149958, 13922621,
     5088743, 16236989, 7995970, 6007071, 9787526, 14959583, 15235606,
     3664860, 8467240, 2336625, 4728454, 2344545, 12680290, 1590996, 10374510,
     13411749, 4202798, 16563460, 15263009, 8934935, 16488404, 11830827,
     13593189, 10098241, 15135833, 2465603, 5203412, 1656973, 12244544,
     1237192, 15080004, 14268583, 11475346, 5539790, 7921240, 9392115,
     1689485, 5935633, 7284194, 5304900, 10248982, 10744521, 15317783,
     3430567, 16216963, 9269809, 8002896, 7427162, 14517491, 8746862, 4370335,
     1044878, 13506125, 15409283, 9205646, 15367837, 235580, 1564842,
     12074640, 14094391, 6691148, 11916075, 13838602, 13170915, 11209750,
     10490219, 19173, 10265929, 8280862, 13892596, 14555959, 5589080, 4092145,
     12252041, 5456023, 11805162, 14604083, 1056700, 3205573, 15385025,
     9521250, 3719574, 4003310, 13477893, 16232631, 2390659, 13475115,
     9109859, 7515682, 1530349, 1349656, 16663492, 5369625, 14681528, 8521829,
     16743185, 15650354, 8208870, 1829687, 5057437, 9248729, 4883691,
     11854133, 2093976, 9184534, 5582627, 13664486, 15472782, 9064454,
     3409161, 16170527, 13412161, 10119775, 9180997, 9858578, 4826088,
     7465677, 1537331, 10004033, 13387128, 6457569, 5319163, 9657821, 4061884,
     4870920, 3084805, 3177459, 13781932, 3132801, 553185, 10280627, 16463477,
     11016916, 4363019, 7994863, 1159058, 1507002, 11387098, 12710484,
     2184803, 14709765, 2509038, 15491762, 648297, 14134137, 1346343,
     15068844, 11732689, 15486753, 13914366, 9069761, 11467200, 6564858,
     14057045, 11832691, 8800890, 4624373, 8754185, 13616870, 3951063,
     14252009, 3610478, 15016262, 11399688, 9895221, 13845620, 15934410,
     7036754, 9725668, 4617271, 7559194, 8265385, 11077079, 10757497,
     16714432, 11747834, 15383720, 16482950, 13309786, 5995632, 1381989,
     5441267, 10280794, 1935247, 8161179, 9849479, 10572118, 5624905,
     14178049, 3194027, 4077461, 271942, 12272352, 4547262, 1965187, 11833526,
     3698714, 6242134, 13330890, 2860209, 5579030, 7149294, 13688750, 1043416,
     1687914, 13138548, 2455487, 14349932, 11704971, 3670411, 758901,
     13709003, 9627874, 10640217, 15267535, 15712193, 8962354, 10102744,
     11418390, 1241461, 447897, 2087819, 10653530, 3162851, 10172670,
     13926534, 9662887, 2008156, 6563404, 1535649, 6209917, 13989588,
     16450339, 1946931, 610557, 10158674, 363000, 3264694, 16123429, 16285507,
     3103314, 12047942, 2078615, 8040206, 3532887, 12199640, 13434298,
     1024834, 15719733, 11397554, 382228, 9130755, 7140699, 10411939, 1702891,
     14024119, 4360732, 1174477, 3704900, 1207484, 10853612, 5050974, 5876957,
     7316017, 3025232, 1024122, 8449618, 7837161, 660665, 10007356, 1693177,
     11732695, 16579834, 6564525, 3344635, 4364311, 6015559, 15173291,
     12274182, 7888918, 14064785, 15138152, 15409571, 9559129, 2842473,
     11705414, 11285036, 3412732, 16215999, 12873968, 973933, 13231322,
     11344783, 2654300, 14183871, 2717138, 5743051, 8883103, 4205835, 1966505,
     10012498, 15458835, 7420798, 11167012, 2932984, 221522, 7912561,
     11429993, 6877071, 15101139, 9548127, 14676787, 8532894, 15393282,
     5225196, 10887297, 5992010, 6520334, 14053622, 11032969, 4209951,
     2573839, 9405310, 11590082, 208646, 7683196, 12441553, 1326638, 5635744,
     12398633, 766659, 9132165, 4712437, 2262199, 4028719, 12787034, 15990856,
     8083717, 5909364, 10236377, 4829789, 11297835, 6026396, 9903216,
     15886443, 14964329, 10632524, 14323957, 10419940, 2220368, 12006100,
     5205929, 6509848, 12557509, 6952780, 13906680, 10919163, 1354309, 25572,
     9975345, 3226418, 11720272, 5610329, 2685693, 4016733, 3742960, 10693787,
     7518463, 6352660, 11917694, 14687167, 11304072, 9531999, 14672307,
     6952585, 529245, 6748921, 14624501, 11774747, 9520606, 7016677, 12955126,
     11109803, 11895147, 784832, 2779564, 7471769, 1071834, 4349106, 11769488,
     2645541, 7488757, 8851208, 14846921, 8174960, 15234380, 9418811,
     10133059, 12674931, 1160, 14828964, 652804, 8297720, 5468431, 5235468,
     14054891, 7833151, 836461, 13573537, 13802949, 14680337, 16343975,
     13630060, 6964850, 3154138, 9203344, 16767491, 16157092, 10621466,
     16417709, 1400344, 14050052, 12172782, 2189791, 16556117, 247116,
     6741367, 15930764, 11383592, 7004237, 5304572, 56921, 3582349, 239768,
     12034702, 12662667, 39553, 16445776, 13803142, 11337403, 8864174,
     10268695, 1640549, 3195387, 1994876, 10206581, 10892866, 3330552,
     14657478, 5073699, 4697330, 11551784, 16416760, 3057163, 1680753,
     7979335, 14326704, 15481507, 6655457, 10530036, 1364749, 366506, 4608933,
     15332380, 7599712, 13418829, 13293285, 1942455, 14451221, 4303167,
     2238425, 10965034, 8738673, 13711569, 10918330, 10820308, 5822583,
     1931214, 14627447, 2591075, 4670941, 14281433, 311625, 709636, 682216,
     3451672, 11425229, 4356529, 9367654, 5280011, 15879677, 6155456,
     15744390, 9520529, 15264769, 14251201, 704719, 14199563, 12568396,
     16126308, 11766277, 10193777, 10995147, 8296092, 11951378, 10806933,
     15144963, 7695111, 10739787, 7305481, 6248661, 14619846, 9024947,
     2991181, 3487045, 6301168, 9850331, 4882765, 149268, 2322922, 2533748,
     4552890, 5593664, 5662496, 13247678, 6160618, 12054420, 1572151, 5674993,
     13076445, 10410901, 598367, 691270, 4523508, 2749123, 2506785, 16473784,
     9788686, 4857521, 6055008, 6623510, 16597750, 9202039, 2175014, 4922552,
     1927641, 8020594, 12256120, 4021600, 15665793, 809607, 5165365, 3012967,
     14378687, 8775326, 12224898, 1188881, 5077971, 6764055, 14018366,
     5511662, 5020170, 6957874, 1822868, 1667660, 9409165, 15244744, 8072731,
     7952478, 5655273, 14107094, 13386110, 16378412, 13628613, 5765517,
     2085824, 8037738, 1946292, 11737261, 8350599, 7156075, 634587, 5065093,
     5621741, 12327076, 11527801, 15005538, 2611610, 15429818, 2794348,
     10514986, 9470526, 6301041, 13524424, 16350412, 16634605, 10718602,
     1458305, 1104522, 13552174, 1420519, 3322564, 12580723, 3708749, 1026030,
     6456072, 131718, 1645450, 6607001, 9336094, 8707437, 4862386, 7525324,
     15437600, 8197663, 13225290, 9812804, 11985749, 11396805, 3644909,
     7097401, 1403636, 6179576, 3693300, 16583591, 16762227, 4377453, 9818496,
     13037577, 2794767, 7234688, 3220302, 6014973, 1929587, 1071358, 13790547,
     14488450, 14308594, 11777675, 463369, 15150005, 8821723, 7576788,
     12623821, 11356849, 3383761, 1994983, 8339743, 6676553, 4303014, 3476775,
     10754149, 706344, 16727563, 15904152, 13378709, 3622106, 10459169,
     2455420, 1755394, 3321386, 7690810, 6342323, 6067347, 9166924, 13874532,
     2538969, 1757350, 16587463, 10003255, 16491822, 8185627, 2489772,
     9460741, 6809987, 10709963, 11407323, 7100770, 14724634, 8744765,
     8311532, 11397070, 15385490, 14894508, 5409986, 13984371, 8362450,
     16746732, 8365901, 10654619, 11241878, 14675014, 3388851, 9106825,
     10230253, 15624846, 3670403, 162817, 5707949, 11837898, 16149185,
     12533232, 15082852, 5339507, 13725748, 5399325, 595058, 8809840, 2489183,
     14671394, 4309763, 10109727, 13156131, 2615657, 14132008, 6358650,
     9780247, 4938916, 12048249, 11850975, 13540142, 7892528, 1113321,
     13420863, 1420076, 8665898, 14577644, 15359780, 661287, 1113246, 3776394,
     2189328, 681692, 5040685, 256442, 12732207, 14159210, 7526076, 5546453,
     14460339, 2695931, 13432601, 2496776, 14574292, 11007257, 7729852,
     16250382, 6229747, 8472488, 6412798, 15117789, 8888697, 8429353, 564016,
     9627982, 1520802, 11384538, 13323544, 13507504, 8690570, 12714552,
     10068716, 16618378, 1281076, 12531999, 7153245, 15196478, 12660393,
     3457865, 4859757, 8982794, 15118598, 10043080, 7010202, 13852890,
     16316656, 8090201, 14185001, 13271452, 16311376, 6519104, 10190982,
     9837965, 3918672, 14282722, 14508546, 13389216, 343627, 11022371,
     14852115, 4038, 12427645, 3052931, 5074135, 8503662, 9567486, 4269120,
     5581541, 1100935, 8279724, 14426449, 4395756, 15820025, 13841544,
     5080222, 12960066, 6846331, 6445130, 13590174, 6437072, 1044528, 2748031,
     10753941, 15695493, 2136088, 4008944, 4816543, 12238151, 13924094,
     5604003, 931589, 15801823, 602869, 8075384, 7010628, 2363991, 8251554,
     14931076, 14484193, 10099325, 12032430, 1369350, 11300189, 11722180,
     2539630, 13594385, 16554178, 5918529, 6897787, 590218, 10263811, 7822862,
     6487464, 7698768, 789081, 1702560, 7900209, 13055163, 2539529, 339370,
     544680, 10037812, 10358260, 2226369, 10569080, 5434330, 1766520,
     11745388, 9213103, 10888283, 5816123, 3271114, 6432620, 13143555,
     13026164, 13043630, 8226199, 1862219, 14785368, 1009331, 10236110,
     11757765, 7838120, 10306761, 10608445, 15668502, 5668440, 10913112,
     2085807, 16265266, 11450946, 11972504, 10436056, 4972538, 13229950,
     14246063, 2132537, 16080442, 15297185, 6503615, 13410720, 4929205,
     15382818, 12512180, 14638703, 16064970, 11425392, 16498681, 13593753,
     2039310, 8707497, 14435656, 13178321, 16707441, 3173032, 640628,
     13121697, 6577111, 7458808, 6234105, 12693913, 3195683, 7641522, 5981980,
     13246597, 10603425, 1263988, 16047365, 748950, 15131832, 15674778,
     670764, 8156496, 4284671, 15117469, 447213, 15850832, 8725212, 11182201,
     9550543, 9593158, 14694782, 3623532, 3852975, 1568270, 13024868,
     13747153, 14842568, 14911120, 10526490, 13076090, 8429089, 11718926,
     8786421, 7048294, 8507839, 5122278, 15862615, 1903289, 2444279, 7146594,
     14962627, 9496121, 7080933, 15483366, 1409823, 15699359, 1757658,
     6973302, 1055669, 1664484, 6965253, 12982524, 2619879, 12319163,
     16014756, 515074, 13276529, 7494694, 7232428, 11516184, 6996426, 505568,
     8331981, 15422998, 14496482, 16143750, 5444191, 12122256, 4237688,
     1317658, 5914019, 1179932, 2036384, 6027270, 11606061, 492872, 5795607,
     5836419, 2984795, 167172, 13929619, 16346436, 3867039, 13740652, 6137147,
     1183089, 10009103, 14989353, 2404026, 3489292, 54225, 3435819, 11056495,
     11303802, 12282624, 15741428, 15114660, 2066753, 12548968
    >>,
    <<
     2254257, 9549656, 14217578, 13459774, 12814011, 1058756, 4279348,
     1978347, 8312021, 12766831, 7541208, 7922960, 10931916, 6368886,
     13232582, 3522457, 1574702, 8184876, 475591, 14987372, 14021811, 6539906,
     7260626, 10191118, 12788937, 12870769, 35333, 11674138, 7472357, 4468285,
     12105432, 13452414, 3837993, 9917908, 15859010, 1715087, 15123443,
     5325585, 513214, 374502, 426910, 10897575, 9083394, 154433, 15756308,
     14784650, 6395545, 11517287, 3633934, 16257804, 7081940, 12177785,
     487223, 8852152, 3719368, 12812776, 7346534, 15756607, 8318349, 9275444,
     3910508, 5799890, 3873297, 11355634, 3670536, 12766584, 7710866,
     15976010, 4861728, 15544201, 360537, 6982340, 14052226, 15372456,
     9335754, 15471756, 10775911, 1677726, 3118989, 10558789, 16652115,
     12140647, 14427508, 4972605, 2028196, 12467932, 5581698, 15025261,
     12104499, 16328463, 11931817, 8402024, 15710865, 16227095, 7081780,
     8518081, 13925688, 15270371, 11245861, 3185149, 5089679, 4767403,
     9857966, 16331804, 14805540, 8377905, 14196836, 15785908, 8477255,
     6599378, 9881818, 14315796, 579247, 8056871, 4072500, 12477729, 13378223,
     6782828, 6951035, 11152545, 2902582, 6159315, 9207315, 14809785,
     11795066, 13016395, 11315994, 12385200, 6286473, 1450685, 7364554,
     11136008, 8529981, 1810786, 13060099, 2746401, 8739896, 14092048,
     6597725, 6216338, 8215693, 12293770, 496185, 7873885, 729595, 5176264,
     11800793, 14232138, 16495152, 10314812, 9951971, 9700182, 6603506,
     10857478, 2857985, 2828542, 8426164, 3807376, 16476511, 206386, 12927233,
     3347329, 9053278, 15436488, 14433267, 9199592, 3895269, 6785626, 8619658,
     5768441, 15979751, 14218036, 9693788, 5926956, 7702952, 15263156,
     4517759, 11059789, 9193852, 10216398, 16057746, 12237304, 95783, 6437243,
     13147553, 14377220, 13765469, 16016307, 14867626, 15744732, 12423585,
     8598322, 13575114, 2168445, 8701977, 13042560, 9418022, 3447470, 7148615,
     15933645, 941592, 8071549, 14596348, 6119255, 9563001, 9301308, 3352749,
     15787586, 8467804, 6935701, 8135693, 13645773, 5985942, 6952889, 5806224,
     26587, 9034175, 9061534, 10460417, 13194347, 10275247, 5555564, 7686427,
     10063900, 469342, 13498436, 3852133, 10659758, 2973111, 9240156, 9805626,
     3033052, 14445331, 1536816, 13395582, 9244734, 13373077, 14282007,
     13697546, 15618749, 4283123, 544573, 14122134, 15830481, 11292971,
     1182013, 1396437, 14563933, 280022, 7600058, 244275, 12652458, 12676642,
     4717697, 4186909, 4507060, 1836914, 13376268, 10482439, 3097244, 5778456,
     4870162, 1166274, 2809685, 2678071, 4281815, 8847974, 15971199, 2821004,
     11016868, 4578744, 10875038, 11938497, 4940768, 7628627, 11788100,
     5402293, 8329781, 7948558, 1915801, 396522, 5234574, 6485352, 5760330,
     7061843, 13358069, 3154776, 4335582, 1824718, 4252322, 15096449,
     12249921, 8558325, 16386949, 3507964, 16199467, 10161098, 7241978,
     13707650, 16367070, 349269, 3781148, 299716, 6665845, 2457220, 592672,
     12060057, 16104337, 2688172, 7477076, 11821320, 8494460, 11377901,
     7158251, 9138585, 13962752, 3701049, 16390939, 16367759, 10582595,
     13385045, 11661018, 8667101, 7563924, 3744603, 8789506, 10880132, 515065,
     6625289, 11322986, 9661092, 13478572, 5389610, 11070007, 10585548,
     7152116, 986250, 12372378, 5009776, 2108616, 16238722, 3558979, 14689027,
     795914, 5140314, 1186600, 14403481, 1282553, 5207037, 15387665, 15758644,
     4997593, 12479599, 2654279, 6982211, 9478132, 4233866, 2187600, 142275,
     9407275, 14742439, 14269469, 636133, 9908354, 13747487, 3650560,
     16143056, 15113134, 9567720, 7731821, 2877579, 13890077, 14558950,
     14594272, 16337237, 13086518, 11811548, 10451581, 8537484, 627860,
     6341264, 3362279, 5820534, 1661369, 3452109, 9619765, 11310410, 15041877,
     7263697, 9922201, 3256770, 8260274, 1751947, 15736255, 11172913, 6544129,
     4967275, 8457518, 8385251, 288571, 5458394, 10269809, 14623382, 6749888,
     15094096, 4720298, 303549, 2633440, 3369754, 14387079, 5498576, 13608655,
     16559946, 9451285, 13131533, 2267325, 5689080, 7201459, 3574046, 4471722,
     11315478, 1617409, 14054291, 6362485, 15639510, 9187648, 5768842,
     15341835, 14804101, 14054152, 11527795, 8964570, 8128539, 12884082,
     16534084, 8934210, 3936613, 1095934, 12171286, 677807, 1420698, 2231655,
     2846995, 2794288, 15283838, 9029644, 3573013, 4496460, 12735856, 5573952,
     10069833, 8487400, 14111856, 4283076, 6175827, 5684986, 5709038, 1911141,
     4885781, 3945825, 14552889, 15837606, 10133145, 13078508, 16010622,
     11997532, 14885838, 8200582, 2270728, 9730064, 9247106, 12922703,
     1749444, 5380888, 656623, 6821598, 1227981, 6379204, 14531893, 16630136,
     13222399, 2471760, 13900023, 2097441, 5719310, 1924168, 10321108,
     9855069, 13118165, 15538477, 6342452, 1286001, 9576124, 9232078, 3753299,
     9495342, 1371424, 15976040, 4474880, 6121868, 14944609, 4958549, 9469846,
     8963968, 15520052, 1917905, 7680093, 15045126, 4650355, 1807420,
     13203915, 767586, 13887645, 4961659, 207731, 10295790, 11247640, 244077,
     1538187, 6937956, 1931099, 13859993, 14848843, 13251957, 671483, 3152809,
     4020380, 13178706, 16578548, 9844750, 7063435, 2718241, 1938744, 7564991,
     2808228, 11423439, 4050360, 2666650, 12482356, 14177064, 1725270,
     7299814, 15280091, 16184876, 6346439, 13530612, 16278329, 9108777,
     15254226, 13729636, 4932897, 9230976, 4251516, 11938850, 8002901,
     5275759, 1679888, 3483195, 10939587, 5325362, 664716, 457389, 176263,
     13201319, 16485017, 15529052, 4958503, 12188374, 10008794, 5372924,
     7547138, 6564405, 5255980, 6686646, 1056373, 1076962, 15324175, 5324241,
     16270766, 10090604, 16270485, 7648027, 1868349, 4195358, 3610343,
     13172389, 10365079, 13051325, 16440881, 14952012, 9108571, 14556144,
     11545909, 7867173, 11103739, 5969786, 4346741, 3073967, 9086578, 3486924,
     5155992, 3342288, 4133590, 6047575, 1365141, 13756932, 4710819, 1500131,
     16498323, 12638053, 7514552, 1518144, 10938921, 9636098, 10795569,
     5685526, 15782906, 3815579, 6551142, 16216824, 5146986, 688742, 5490199,
     3134199, 5313933, 13299832, 14212562, 9714119, 14990446, 15457712,
     5080297, 4124647, 5609183, 1693620, 9130587, 10257451, 9713763, 13548737,
     9998592, 1544240, 4112062, 3693595, 341819, 13560409, 4089602, 6740643,
     1213454, 4497364, 9247681, 14555175, 1189779, 12233430, 1260468, 360946,
     10659942, 166379, 4879175, 12595138, 13290654, 6026231, 8275547, 7865735,
     14472848, 14413559, 2586704, 1693399, 8412592, 13048411, 13337609,
     5504496, 1293640, 8544133, 15925402, 11161000, 2906520, 3012624,
     13022625, 2509249, 16523810, 2374616, 13783324, 14521446, 5365085,
     5127501, 1793110, 11900481, 8629499, 14003760, 15424249, 10098083,
     4923936, 2118959, 14994784, 3468530, 2377006, 9151853, 15275347,
     12123695, 532843, 13081924, 5302752, 13774594, 15151307, 10461056,
     13486470, 11277616, 15219514, 9276987, 14104916, 15828877, 12518904,
     16558027, 11569487, 3446613, 2988942, 5015152, 7258461, 9017624, 2649071,
     814681, 11992764, 14463620, 11203468, 4148953, 4237696, 13048924,
     1080690, 11443333, 16162933, 7494298, 13560228, 7217078, 9215220,
     4197991, 9082809, 7371888, 14282320, 9027147, 7605274, 182310, 6638919,
     14030634, 5681925, 2877587, 4328003, 8150088, 409506, 13305457, 10845444,
     15647093, 6990795, 16379797, 9573140, 317273, 1045583, 11604857, 5954962,
     9731969, 2320022, 9958055, 2099316, 2323573, 4347194, 16495645, 13907211,
     4645851, 6673931, 9463556, 6729041, 2888604, 10275120, 1497320, 3917977,
     8153671, 125446, 2979266, 8870143, 5322431, 8403701, 14982646, 10885721,
     15442345, 7353738, 15604620, 11517779, 10722500, 12271224, 3787130,
     3999263, 5251014, 8305934, 11525097, 8033382, 16048073, 3775915,
     11959573, 6916342, 5653108, 9402076, 10255689, 15215919, 12217516,
     15396561, 10962362, 4617515, 16313389, 10845047, 3682081, 808617,
     15461941, 1200433, 12804275, 8584762, 10826143, 14720733, 6185593,
     2675424, 8583757, 12851814, 13295609, 14814442, 3419938, 5231170,
     5011655, 11619177, 5025886, 14243707, 9266355, 6234653, 2771238,
     11765570, 11765458, 12355045, 7797686, 9975360, 1425613, 14365946,
     2067689, 15042525, 10168757, 16107449, 8622671, 9583694, 6328327,
     2957418, 2613541, 4204293, 7159725, 3651035, 15798991, 9554915, 12072845,
     12712937, 13124289, 874650, 8305155, 11435962, 6603633, 12031835,
     10686632, 5838160, 6442059, 8641202, 14184548, 2764854, 9130544,
     12245625, 16681771, 682978, 8794179, 16462157, 1516690, 13555046,
     4281275, 10543616, 1695277, 4488345, 12363256, 15315297, 1404587,
     16096712, 16354780, 2334149, 16260956, 13015046, 10349908, 14125255,
     16220231, 11068220, 11519726, 11750892, 1375870, 7466846, 14276914,
     15507311, 4043146, 16294158, 14277424, 6414824, 15770534, 13467264,
     15156971, 7263219, 6664580, 2764117, 15268678, 5460434, 7350584, 2119466,
     10442181, 15248555, 8186719, 16096465, 3557023, 1999621, 7235350,
     10077722, 8959948, 6848863, 15255456, 1981221, 11081514, 4957256,
     4658570, 4164379, 6356039, 12575812, 9384740, 67259, 16102841, 3184964,
     8864462, 7361390, 9715394, 352903, 516879, 10528149, 16325765, 10160744,
     4064099, 14014551, 4368733, 3466270, 2899979, 4777842, 2489914, 9098945,
     3362946, 4583966, 5219990, 9827054, 12707393, 4209105, 13964598,
     11467682, 7489290, 13272299, 14449227, 13566973, 14346016, 16334567,
     2818229, 9149907, 5988718, 8234413, 7045869, 14356225, 2043465, 12902809,
     3505519, 9572150, 14745996, 6429975, 3436338, 4765525, 13598967, 1814274,
     15166901, 13548425, 405180, 1980911, 9551412, 12537030, 221727, 9148399,
     4972978, 16189096, 11306399, 12768562, 12152002, 16332951, 10894860,
     2291667, 1261371, 8394840, 6270103, 9606269, 13513693, 5221932, 7334481,
     8439484, 11362586, 5986425, 12727367, 8864979, 5430580, 14172, 2078710,
     7420803, 12045498, 7542233, 5875595, 5113681, 9047874, 6700866, 5693602,
     13138024, 12266386, 11465765, 9586753, 8259408, 1897425, 10866069,
     15398336
    >>,
    <<
     16039593, 14480571, 15901906, 14244783, 948774, 1536537, 1423915,
     6057539, 14017345, 2836752, 12347527, 13572130, 11236211, 14324963,
     5169671, 4220867, 10166056, 3560440, 10180443, 599524, 9750985, 11429414,
     2657223, 16772498, 7225437, 10711771, 6602368, 13483335, 12130129,
     14432501, 16690302, 8540734, 15928212, 6242135, 9129775, 15698637,
     7463414, 8423291, 4500332, 15119757, 602710, 14613508, 460448, 6107148,
     7799624, 15633790, 5342958, 15229519, 6375592, 7107012, 14961744,
     14832142, 8820667, 2759657, 9403803, 2976889, 3961493, 3868870, 400272,
     2964869, 5454993, 2912336, 2293401, 8559176, 8560135, 6034620, 16755129,
     8619083, 11315891, 9393400, 3050827, 16696310, 14991642, 7476558,
     13367413, 6957024, 12321215, 8814174, 15210117, 15241732, 12799094,
     6111193, 13249766, 9957035, 5935560, 6071445, 16458055, 14411071,
     16138019, 7478762, 2704229, 16021119, 12650089, 6708596, 11998241,
     12391487, 7741119, 10987582, 8897892, 4192655, 8221069, 4682558,
     15516107, 8356151, 8402718, 8646846, 13950665, 13358291, 5937862,
     11101242, 14811780, 7628411, 15094471, 15152789, 7734500, 5885024,
     9524510, 12178332, 15440582, 9354687, 12142895, 7659656, 8163936,
     11054261, 3721371, 15780590, 5447012, 13668123, 11736864, 14009418,
     2786186, 14708521, 15232713, 10340571, 4498600, 12968520, 15290382,
     8049140, 5193607, 5088474, 16061864, 13409338, 11848167, 13943004,
     8459891, 9431961, 8686365, 8512032, 10928920, 10331547, 9864075, 6822799,
     5231879, 12262968, 3486615, 8202489, 8588116, 6150497, 15672509,
     11479505, 10456652, 14798671, 1264588, 13158032, 13764027, 5728730,
     12179408, 141294, 15227900, 13674429, 3211204, 16728035, 12495380,
     1781017, 985810, 9637083, 10954010, 820575, 4581853, 9927084, 3801994,
     11450075, 14688304, 15365261, 1782847, 12656224, 8763791, 2290088,
     14326786, 4460075, 4107598, 13836967, 3531250, 15830661, 14773710,
     1013089, 7095380, 15065400, 12028611, 12740770, 534741, 952885, 6079340,
     6043463, 2883684, 4185943, 11287131, 393303, 1390884, 1933122, 16014895,
     1131901, 425213, 685761, 12237695, 15412054, 354752, 6259533, 4289767,
     2143912, 13645822, 15702891, 2636007, 12327680, 3082625, 8776017,
     11601368, 32484, 6468722, 9889468, 724121, 13323758, 16609469, 4157847,
     2540407, 16287610, 608492, 70399, 5774734, 15744813, 10322005, 10532002,
     12456405, 12543962, 1897753, 4798730, 5657508, 8200049, 516920, 5173852,
     7527152, 9252690, 12850843, 10152831, 12414245, 767934, 15133387,
     4428214, 12677907, 6741991, 14469439, 10428635, 11833727, 2574557,
     7931923, 16085727, 3783724, 1567892, 11086862, 11532582, 5306732,
     14066041, 1712099, 406072, 7513204, 13227313, 14676088, 15906381,
     2139706, 8695397, 9813928, 13104006, 6592649, 8169191, 8636956, 5502269,
     2413057, 14670723, 16101617, 5721886, 4346916, 4392902, 10168300,
     16285368, 7042329, 10960800, 302547, 11735223, 9360849, 16089349,
     2358362, 11250151, 952627, 4244080, 562980, 2209591, 2703900, 2864051,
     1608464, 7606620, 10654802, 3886527, 8527174, 15374606, 16499823,
     11879837, 15672106, 526826, 16685364, 4139955, 3900263, 11976708,
     7460785, 1233925, 4207403, 1349378, 9919316, 3828614, 10471735, 13280568,
     13425253, 10467464, 11903406, 6036929, 4305189, 11485021, 7097046,
     4676433, 8828002, 12594283, 80946, 2535296, 595581, 6455080, 6857291,
     2688309, 1865206, 8591307, 12142840, 1473397, 4041052, 1709786, 1673914,
     332218, 3049428, 12592729, 3884352, 1765370, 3646588, 410036, 8736506,
     11232173, 7791391, 7614469, 5196341, 8984758, 10766925, 6375387, 3564315,
     11487135, 15209597, 12759490, 16158416, 3525572, 12229433, 13523774,
     7276846, 7140365, 8581568, 357734, 9748842, 9921087, 859576, 14788059,
     7013151, 15584031, 8809121, 9753283, 3040451, 15445379, 1573481,
     11128195, 13466319, 8049754, 6143547, 326868, 8710893, 16117367,
     15459371, 1989626, 10242663, 6148561, 4858359, 11582900, 16500745,
     15643870, 6244927, 5171988, 319691, 14669108, 11497605, 6916479, 1697214,
     1761884, 5132525, 3328454, 14103123, 13008007, 11283881, 13847812,
     263772, 13624112, 7573628, 1006478, 6889972, 10692032, 8151427, 7773552,
     3493803, 14924036, 9877503, 10293772, 1237979, 89393, 4770758, 405035,
     6256259, 5130831, 15691234, 12139406, 1284266, 3676983, 12666531,
     8228308, 3227250, 1942270, 9589063, 6264520, 6572993, 12011222, 7771615,
     2343195, 12642982, 5787117, 6627714, 14892995, 2042281, 4264135, 2042963,
     2062901, 1350745, 10343849, 14261822, 5611696, 10754054, 6561642,
     16100566, 3556935, 11620781, 1768336, 413873, 10371372, 11058864,
     7891574, 13039452, 724447, 12138622, 11841418, 8354206, 4878023, 5999274,
     16099409, 7667786, 2373413, 13400332, 6289988, 4512106, 8123554, 8829911,
     14525603, 8012119, 12071992, 16017155, 12212362, 13494753, 7029082,
     15637268, 8256429, 14025846, 11412257, 4978868, 6621494, 3886062,
     2623948, 8200526, 10008543, 4352099, 9203328, 7174840, 11670542,
     11394082, 11730698, 15411218, 1414502, 9829780, 12210472, 13721300,
     9659499, 1609728, 1193864, 5973649, 2955044, 16739434, 9148014, 2457879,
     13527543, 6992207, 15069375, 1121378, 13397790, 1445346, 15290185,
     15024002, 11431235, 16586576, 13586366, 10873013, 630350, 2156123,
     16339576, 4972473, 6553080, 3887274, 11885032, 11253021, 14850463,
     11426945, 5526660, 7362611, 2894582, 8791173, 4814865, 1880227, 2617550,
     9074682, 16553849, 15937327, 16254753, 12679839, 7108672, 1613204,
     5517080, 8665454, 4170832, 12001830, 8626273, 4316115, 2844843, 15013874,
     2642598, 7733306, 15894497, 11798261, 3933368, 6780736, 14671141,
     16695561, 6015524, 13133468, 12823458, 9620733, 12229323, 2428754,
     7829242, 7401826, 12060611, 492996, 13585045, 9985197, 6429890, 14794442,
     12360668, 3027020, 6591038, 8559257, 898794, 8094307, 4596120, 6793341,
     4256740, 11919542, 12268296, 15714713, 6914654, 11834522, 10870436,
     7927220, 6041588, 16139302, 9186833, 5548686, 11966509, 12509306,
     15300293, 11047545, 1365891, 12777676, 13751948, 14295416, 12176722,
     3774854, 8939815, 10422829, 3152031, 6756585, 13695078, 11189931,
     6418218, 16395266, 14779667, 10650694, 15350647, 194712, 5250160,
     7793835, 8784102, 11938272, 15212123, 14817988, 7823343, 10906617,
     2975754, 13691381, 1584270, 287517, 6759904, 15824766, 3632723, 12238368,
     9550724, 10174441, 6472409, 15188800, 3615476, 14842462, 16317333,
     1685395, 6542848, 13683853, 9357044, 12868137, 13448480, 3347692,
     4603831, 12486370, 15458311, 9835264, 9734521, 3212743, 8217541,
     13492059, 10266412, 2313127, 142342, 10273087, 11386627, 7287988,
     8087561, 4256230, 8614114, 9497491, 2911968, 7836417, 11957352, 3439287,
     16313927, 16219890, 12753359, 1221806, 5876012, 50957, 15194743, 8144048,
     8945044, 14045742, 11225434, 11046153, 1097979, 12661254, 9924755,
     8136957, 15517829, 11321304, 15472780, 5618532, 7705870, 4478598,
     14722374, 8437273, 7722899, 461840, 16560570, 1338965, 10292550,
     12649345, 5832368, 2914196, 12744378, 12587202, 15745715, 13159645,
     16739119, 6786232, 4283103, 11324506, 10487975, 13210753, 13982753,
     14495918, 12072273, 2262747, 907302, 2727474, 8379927, 6403249, 16647959,
     7795645, 11335987, 4946239, 2614697, 174487, 4742161, 9351983, 7841536,
     16222121, 30533, 6148173, 570714, 9026132, 14261202, 6414418, 9467488,
     7428959, 3429516, 14604460, 11348404, 5174604, 8359716, 10889507,
     2237817, 8116591, 11570032, 9035691, 11930402, 15346171, 5078601,
     1287047, 4328231, 13830640, 5252590, 5103114, 5598675, 10843253,
     15911540, 13351996, 5237390, 10962391, 10783897, 6592884, 8692019,
     14104685, 15443369, 1559422, 8530534, 10625252, 3533491, 6562002,
     10002446, 8899742, 14229662, 14276422, 2508836, 13385951, 8466963,
     10550187, 1495474, 5168712, 687381, 3907645, 15931332, 7676217, 9417100,
     3894152, 8768316, 4655451, 1027936, 16068456, 1877586, 1878478, 11330955,
     13734103, 13210187, 6362156, 14371315, 6117029, 3585569, 5341723,
     5974071, 1298314, 5615560, 7673566, 6085101, 2793359, 8348068, 7415679,
     14586206, 4898731, 7735329, 15008447, 2245786, 15464272, 12054190,
     7415470, 16621636, 10731046, 3622269, 15596808, 4580754, 5473174,
     2667322, 1670245, 14893425, 3990324, 7866671, 3180057, 12621957,
     11382848, 14197175, 6271127, 3109395, 5974331, 2352912, 13339524,
     2271316, 3911978, 4506957, 13564989, 9237531, 10618411, 6341894, 6715250,
     13564264, 13816358, 12573131, 5742056, 4710108, 14740148, 12080756,
     15534459, 9984079, 8432334, 9745172, 11575998, 12282859, 15917922,
     5376875, 12458087, 6701234, 12599807, 11975925, 14584604, 11819683,
     15696274, 10605620, 12642207, 16265922, 16426055, 12018606, 4892336,
     8924462, 10443585, 10686974, 11251773, 1219184, 6164524, 5177207,
     6629983, 8120170, 2932224, 4327212, 16067746, 15121877, 5939193, 7394301,
     7996591, 1471319, 14991534, 15494015, 3128113, 5282797, 16117359,
     6358801, 2131641, 16240176, 470257, 1749349, 5885111, 2803231, 6025953,
     1292466, 15395516, 14737167, 14817540, 12286477, 12776872, 10934650,
     7322045, 140693, 9104767, 5375293, 3972337, 13842391, 13984307, 9976488,
     6541622, 9078952, 4775690, 7866794, 10700609, 15111240, 2526289, 6036803,
     5307481, 3391167, 15538680, 8362626, 1594597, 16285913, 2385719,
     13151318, 3428350, 5558820, 4210746, 2371752, 7053100, 6046710, 4197260,
     1495545, 5749382, 3145986, 4135271, 11867149, 4028015, 12214426,
     10244247, 786052, 5644829, 15772195, 6254362, 10871205, 12881824,
     10258449, 1034958, 14466941, 2416630, 2977506, 14274451, 1057996,
     7210467, 7442404, 13066154, 4561926, 2227904, 5385119, 8774317, 9676951,
     14183022, 1953116, 5671399, 10874962, 12887898, 11921742, 10240411,
     16062265, 6619846, 3821100, 16732777, 908332, 6581748, 12860995, 7948933,
     8218169, 10393245, 14619179, 5315672, 9137395, 14053250, 10427552,
     10024991, 1519134, 9865012, 8563553, 9035980, 11151439, 16524443,
     8316635, 16591493, 6732614, 14106138, 11602266, 7626523, 2842109,
     6908686, 6475938
    >>
>>

WordBits == 24

KnownSeeds == 0..(Len(MTWords) - 1)

WordCount == Len(MTWords[1])

\* The generator state is the seed and the number of words taken so far:
\* two states are equal exactly when both are.
SeedState(seed) == [seed |-> seed, used |-> 0]

\* The state k words after state s.
RngSkip(s, k) == [s EXCEPT !.used = @ + k]

RngNext(s) == RngSkip(s, 1)

\* int.bit_length()
RECURSIVE BitLength(_)
BitLength(n) == IF n = 0 THEN 0 ELSE 1 + BitLength(n \div 2)

\* getrandbits(k), k <= 32, read from the i-th word of the stream: its top
\* k bits.
WordAt(seed, i, k) == MTWords[seed + 1][i] \div (2 ^ (WordBits - k))

\* _randbelow_with_getrandbits(n) takes words until the top n.bit_length()
\* bits of one are below n.  Accepted is the places, among the len words
\* after state s, of the words it would take as a value; empty where the
\* table does not reach (another seed, more bits than WordBits).
Accepted(n, s, len) ==
    IF s.seed \notin KnownSeeds \/ BitLength(n) > WordBits THEN <<>>
    ELSE SelectSeq([j \in 1..len |-> s.used + j],
                   LAMBDA i : WordAt(s.seed, i, BitLength(n)) < n)

\* A number of words after s that holds num values below n, found by
\* doubling, or all the words the table has left.
RECURSIVE Window(_, _, _, _)
Window(num, n, s, len) ==
    IF len >= WordCount - s.used
    THEN (IF WordCount < s.used THEN 0 ELSE WordCount - s.used)
    ELSE IF Len(Accepted(n, s, len)) >= num THEN len
    ELSE Window(num, n, s, 2 * len)

\* The value _randbelow returns when acc is the places of the accepted
\* words after s: the first of them, and the state after it.
RandBelowAt(n, s, acc) ==
    IF acc = <<>> THEN [known |-> FALSE, val |-> 0, rng |-> s]
    ELSE [known |-> TRUE,
          val |-> WordAt(s.seed, acc[1], BitLength(n)),
          rng |-> [s EXCEPT !.used = acc[1]]]

\* self._randbelow(n), n >= 1; known is whether the table reaches that far.
RandBelow(n, s) == RandBelowAt(n, s, Accepted(n, s, Window(1, n, s, 2)))

\* start + the value of r (randrange(start, stop) is start + _randbelow)
RandFrom(start, r) == [r EXCEPT !.val = IF r.known THEN start + @ ELSE @]

\* RandInt with the range 0..sides-1 (randrange(sides) for randint(1, sides)).
RandIntZeroBased(sides, s) == RandFrom(0, RandBelow(sides, s))

\* self._rng.randint(1, sides), sides >= 1: randrange(1, sides + 1), the
\* value and the state after the words it took.
RandInt(sides, s) == RandFrom(1, RandBelow(sides, s))

\* ------------------------------------------------------- the interpreter

\* The CPython that runs the program, by its minor version: 3.8 to 3.13.
\* What follows differs between them.
Builds == 8..13

\* The Unicode data of the interpreter (unicodedata.unidata_version), by its
\* major version: 12.1 in Python 3.8, 13.0 in 3.9 and 3.10, 14.0 in 3.11,
\* 15.0 in 3.12 and 15.1, with the decimal digits of 15.0, in 3.13.
UnicodeData(py) ==
    IF py <= 8 THEN 12 ELSE IF py <= 10 THEN 13 ELSE IF py = 11 THEN 14 ELSE 15

\* import of core/dice.py.  The module has no `from __future__ import
\* annotations`, so `seed: int | None` is evaluated when __init__ is
\* defined, and before Python 3.10 type | None raises TypeError.
DiceModule(py) == IF py < 10 THEN "TypeError" ELSE "ok"

\* What the class statement of Character does with its instance defaults
\* stats: Stats = Stats() and inventory: Inventory = Inventory(items=[]):
\* before Python 3.11 dataclass keeps the one Stats and the one Inventory
\* for every instance; from 3.11 on it refuses an unhashable default with
\* ValueError.
ClassStatement(py) == IF py >= 11 THEN "ValueError" ELSE "ok"

\* import of a module of the package: "ok" or the exception it raises.
\* core/party.py imports core/character.py; core/dm.py imports core/party.py
\* and then core/dice.py; adapters/cli.py imports core/dm.py.
Import(mod, py) ==
    CASE mod = "core.dice" -> DiceModule(py)
      [] mod \in {"core.character", "core.party"} -> ClassStatement(py)
      [] mod \in {"core.dm", "adapters.cli"} ->
             IF ClassStatement(py) # "ok" THEN ClassStatement(py)
             ELSE DiceModule(py)

\* ----------------------------------------------------- the dice notation

\* A character is written as itself when it is printable ASCII (and as its
\* escape when it is \t, \n, \f or \r), and as "U+" and its code point
\* otherwise.  \d of a str pattern matches every decimal digit (category Nd)
\* of the interpreter's Unicode data, and int() reads the same ones.
AsciiDigits == <<"0", "1", "2", "3", "4", "5", "6", "7", "8", "9">>

\* The decimal digits outside ASCII, each script from its zero to its nine.
UnicodeDigitRows == <<
    <<"U+0660", "U+0661", "U+0662", "U+0663", "U+0664",
      "U+0665", "U+0666", "U+0667", "U+0668", "U+0669">>,
    <<"U+06F0", "U+06F1", "U+06F2", "U+06F3", "U+06F4",
      "U+06F5", "U+06F6", "U+06F7", "U+06F8", "U+06F9">>,
    <<"U+07C0", "U+07C1", "U+07C2", "U+07C3", "U+07C4",
      "U+07C5", "U+07C6", "U+07C7", "U+07C8", "U+07C9">>,
    <<"U+0966", "U+0967", "U+0968", "U+0969", "U+096A",
      "U+096B", "U+096C", "U+096D", "U+096E", "U+096F">>,
    <<"U+09E6", "U+09E7", "U+09E8", "U+09E9", "U+09EA",
      "U+09EB", "U+09EC", "U+09ED", "U+09EE", "U+09EF">>,
    <<"U+0A66", "U+0A67", "U+0A68", "U+0A69", "U+0A6A",
      "U+0A6B", "U+0A6C", "U+0A6D", "U+0A6E", "U+0A6F">>,
    <<"U+0AE6", "U+0AE7", "U+0AE8", "U+0AE9", "U+0AEA",
      "U+0AEB", "U+0AEC", "U+0AED", "U+0AEE", "U+0AEF">>,
    <<"U+0B66", "U+0B67", "U+0B68", "U+0B69", "U+0B6A",
      "U+0B6B", "U+0B6C", "U+0B6D", "U+0B6E", "U+0B6F">>,
    <<"U+0BE6", "U+0BE7", "U+0BE8", "U+0BE9", "U+0BEA",
      "U+0BEB", "U+0BEC", "U+0BED", "U+0BEE", "U+0BEF">>,
    <<"U+0C66", "U+0C67", "U+0C68", "U+0C69", "U+0C6A",
      "U+0C6B", "U+0C6C", "U+0C6D", "U+0C6E", "U+0C6F">>,
    <<"U+0CE6", "U+0CE7", "U+0CE8", "U+0CE9", "U+0CEA",
      "U+0CEB", "U+0CEC", "U+0CED", "U+0CEE", "U+0CEF">>,
    <<"U+0D66", "U+0D67", "U+0D68", "U+0D69", "U+0D6A",
      "U+0D6B", "U+0D6C", "U+0D6D", "U+0D6E", "U+0D6F">>,
    <<"U+0DE6", "U+0DE7", "U+0DE8", "U+0DE9", "U+0DEA",
      "U+0DEB", "U+0DEC", "U+0DED", "U+0DEE", "U+0DEF">>,
    <<"U+0E50", "U+0E51", "U+0E52", "U+0E53", "U+0E54",
      "U+0E55", "U+0E56", "U+0E57", "U+0E58", "U+0E59">>,
    <<"U+0ED0", "U+0ED1", "U+0ED2", "U+0ED3", "U+0ED4",
      "U+0ED5", "U+0ED6", "U+0ED7", "U+0ED8", "U+0ED9">>,
    <<"U+0F20", "U+0F21", "U+0F22", "U+0F23", "U+0F24",
      "U+0F25", "U+0F26", "U+0F27", "U+0F28", "U+0F29">>,
    <<"U+1040", "U+1041", "U+1042", "U+1043", "U+1044",
      "U+1045", "U+1046", "U+1047", "U+1048", "U+1049">>,
    <<"U+1090", "U+1091", "U+1092", "U+1093", "U+1094",
      "U+1095", "U+1096", "U+1097", "U+1098", "U+1099">>,
    <<"U+17E0", "U+17E1", "U+17E2", "U+17E3", "U+17E4",
      "U+17E5", "U+17E6", "U+17E7", "U+17E8", "U+17E9">>,
    <<"U+1810", "U+1811", "U+1812", "U+1813", "U+1814",
      "U+1815", "U+1816", "U+1817", "U+1818", "U+1819">>,
    <<"U+1946", "U+1947", "U+1948", "U+1949", "U+194A",
      "U+194B", "U+194C", "U+194D", "U+194E", "U+194F">>,
    <<"U+19D0", "U+19D1", "U+19D2", "U+19D3", "U+19D4",
      "U+19D5", "U+19D6", "U+19D7", "U+19D8", "U+19D9">>,
    <<"U+1A80", "U+1A81", "U+1A82", "U+1A83", "U+1A84",
      "U+1A85", "U+1A86", "U+1A87", "U+1A88", "U+1A89">>,
    <<"U+1A90", "U+1A91", "U+1A92", "U+1A93", "U+1A94",
      "U+1A95", "U+1A96", "U+1A97", "U+1A98", "U+1A99">>,
    <<"U+1B50", "U+1B51", "U+1B52", "U+1B53", "U+1B54",
      "U+1B55", "U+1B56", "U+1B57", "U+1B58", "U+1B59">>,
    <<"U+1BB0", "U+1BB1", "U+1BB2", "U+1BB3", "U+1BB4",
      "U+1BB5", "U+1BB6", "U+1BB7", "U+1BB8", "U+1BB9">>,
    <<"U+1C40", "U+1C41", "U+1C42", "U+1C43", "U+1C44",
      "U+1C45", "U+1C46", "U+1C47", "U+1C48", "U+1C49">>,
    <<"U+1C50", "U+1C51", "U+1C52", "U+1C53", "U+1C54",
      "U+1C55", "U+1C56", "U+1C57", "U+1C58", "U+1C59">>,
    <<"U+A620", "U+A621", "U+A622", "U+A623", "U+A624",
      "U+A625", "U+A626", "U+A627", "U+A628", "U+A629">>,
    <<"U+A8D0", "U+A8D1", "U+A8D2", "U+A8D3", "U+A8D4",
      "U+A8D5", "U+A8D6", "U+A8D7", "U+A8D8", "U+A8D9">>,
    <<"U+A900", "U+A901", "U+A902", "U+A903", "U+A904",
      "U+A905", "U+A906", "U+A907", "U+A908", "U+A909">>,
    <<"U+A9D0", "U+A9D1", "U+A9D2", "U+A9D3", "U+A9D4",
      "U+A9D5", "U+A9D6", "U+A9D7", "U+A9D8", "U+A9D9">>,
    <<"U+A9F0", "U+A9F1", "U+A9F2", "U+A9F3", "U+A9F4",
      "U+A9F5", "U+A9F6", "U+A9F7", "U+A9F8", "U+A9F9">>,
    <<"U+AA50", "U+AA51", "U+AA52", "U+AA53", "U+AA54",
      "U+AA55", "U+AA56", "U+AA57", "U+AA58", "U+AA59">>,
    <<"U+ABF0", "U+ABF1", "U+ABF2", "U+ABF3", "U+ABF4",
      "U+ABF5", "U+ABF6", "U+ABF7", "U+ABF8", "U+ABF9">>,
    <<"U+FF10", "U+FF11", "U+FF12", "U+FF13", "U+FF14",
      "U+FF15", "U+FF16", "U+FF17", "U+FF18", "U+FF19">>,
    <<"U+104A0", "U+104A1", "U+104A2", "U+104A3", "U+104A4",
      "U+104A5", "U+104A6", "U+104A7", "U+104A8", "U+104A9">>,
    <<"U+10D30", "U+10D31", "U+10D32", "U+10D33", "U+10D34",
      "U+10D35", "U+10D36", "U+10D37", "U+10D38", "U+10D39">>,
    <<"U+11066", "U+11067", "U+11068", "U+11069", "U+1106A",
      "U+1106B", "U+1106C", "U+1106D", "U+1106E", "U+1106F">>,
    <<"U+110F0", "U+110F1", "U+110F2", "U+110F3", "U+110F4",
      "U+110F5", "U+110F6", "U+110F7", "U+110F8", "U+110F9">>,
    <<"U+11136", "U+11137", "U+11138", "U+11139", "U+1113A",
      "U+1113B", "U+1113C", "U+1113D", "U+1113E", "U+1113F">>,
    <<"U+111D0", "U+111D1", "U+111D2", "U+111D3", "U+111D4",
      "U+111D5", "U+111D6", "U+111D7", "U+111D8", "U+111D9">>,
    <<"U+112F0", "U+112F1", "U+112F2", "U+112F3", "U+112F4",
      "U+112F5", "U+112F6", "U+112F7", "U+112F8", "U+112F9">>,
    <<"U+11450", "U+11451", "U+11452", "U+11453", "U+11454",
      "U+11455", "U+11456", "U+11457", "U+11458", "U+11459">>,
    <<"U+114D0", "U+114D1", "U+114D2", "U+114D3", "U+114D4",
      "U+114D5", "U+114D6", "U+114D7", "U+114D8", "U+114D9">>,
    <<"U+11650", "U+11651", "U+11652", "U+11653", "U+11654",
      "U+11655", "U+11656", "U+11657", "U+11658", "U+11659">>,
    <<"U+116C0", "U+116C1", "U+116C2", "U+116C3", "U+116C4",
      "U+116C5", "U+116C6", "U+116C7", "U+116C8", "U+116C9">>,
    <<"U+11730", "U+11731", "U+11732", "U+11733", "U+11734",
      "U+11735", "U+11736", "U+11737", "U+11738", "U+11739">>,
    <<"U+118E0", "U+118E1", "U+118E2", "U+118E3", "U+118E4",
      "U+118E5", "U+118E6", "U+118E7", "U+118E8", "U+118E9">>,
    <<"U+11950", "U+11951", "U+11952", "U+11953", "U+11954",
      "U+11955", "U+11956", "U+11957", "U+11958", "U+11959">>,
    <<"U+11C50", "U+11C51", "U+11C52", "U+11C53", "U+11C54",
      "U+11C55", "U+11C56", "U+11C57", "U+11C58", "U+11C59">>,
    <<"U+11D50", "U+11D51", "U+11D52", "U+11D53", "U+11D54",
      "U+11D55", "U+11D56", "U+11D57", "U+11D58", "U+11D59">>,
    <<"U+11DA0", "U+11DA1", "U+11DA2", "U+11DA3", "U+11DA4",
      "U+11DA5", "U+11DA6", "U+11DA7", "U+11DA8", "U+11DA9">>,
    <<"U+11F50", "U+11F51", "U+11F52", "U+11F53", "U+11F54",
      "U+11F55", "U+11F56", "U+11F57", "U+11F58", "U+11F59">>,
    <<"U+16A60", "U+16A61", "U+16A62", "U+16A63", "U+16A64",
      "U+16A65", "U+16A66", "U+16A67", "U+16A68", "U+16A69">>,
    <<"U+16AC0", "U+16AC1", "U+16AC2", "U+16AC3", "U+16AC4",
      "U+16AC5", "U+16AC6", "U+16AC7", "U+16AC8", "U+16AC9">>,
    <<"U+16B50", "U+16B51", "U+16B52", "U+16B53", "U+16B54",
      "U+16B55", "U+16B56", "U+16B57", "U+16B58", "U+16B59">>,
    <<"U+1D7CE", "U+1D7CF", "U+1D7D0", "U+1D7D1", "U+1D7D2",
      "U+1D7D3", "U+1D7D4", "U+1D7D5", "U+1D7D6", "U+1D7D7">>,
    <<"U+1D7D8", "U+1D7D9", "U+1D7DA", "U+1D7DB", "U+1D7DC",
      "U+1D7DD", "U+1D7DE", "U+1D7DF", "U+1D7E0", "U+1D7E1">>,
    <<"U+1D7E2", "U+1D7E3", "U+1D7E4", "U+1D7E5", "U+1D7E6",
      "U+1D7E7", "U+1D7E8", "U+1D7E9", "U+1D7EA", "U+1D7EB">>,
    <<"U+1D7EC", "U+1D7ED", "U+1D7EE", "U+1D7EF", "U+1D7F0",
      "U+1D7F1", "U+1D7F2", "U+1D7F3", "U+1D7F4", "U+1D7F5">>,
    <<"U+1D7F6", "U+1D7F7", "U+1D7F8", "U+1D7F9", "U+1D7FA",
      "U+1D7FB", "U+1D7FC", "U+1D7FD", "U+1D7FE", "U+1D7FF">>,
    <<"U+1E140", "U+1E141", "U+1E142", "U+1E143", "U+1E144",
      "U+1E145", "U+1E146", "U+1E147", "U+1E148", "U+1E149">>,
    <<"U+1E2F0", "U+1E2F1", "U+1E2F2", "U+1E2F3", "U+1E2F4",
      "U+1E2F5", "U+1E2F6", "U+1E2F7", "U+1E2F8", "U+1E2F9">>,
    <<"U+1E4F0", "U+1E4F1", "U+1E4F2", "U+1E4F3", "U+1E4F4",
      "U+1E4F5", "U+1E4F6", "U+1E4F7", "U+1E4F8", "U+1E4F9">>,
    <<"U+1E950", "U+1E951", "U+1E952", "U+1E953", "U+1E954",
      "U+1E955", "U+1E956", "U+1E957", "U+1E958", "U+1E959">>,
    <<"U+1FBF0", "U+1FBF1", "U+1FBF2", "U+1FBF3", "U+1FBF4",
      "U+1FBF5", "U+1FBF6", "U+1FBF7", "U+1FBF8", "U+1FBF9">>
>>

\* The version of Unicode that brought the row whose zero is z: 13.0 Dives
\* Akuru and the segmented digits, 14.0 Tangsa, 15.0 Kawi and Nag Mundari;
\* the others are in 12.1.
RowSince(z) ==
    CASE z \in {"U+11950", "U+1FBF0"} -> 13
      [] z = "U+16AC0" -> 14
      [] z \in {"U+11F50", "U+1E4F0"} -> 15
      [] OTHER -> 12

\* The decimal digits outside ASCII in version u of Unicode.
UnicodeDigits(u) ==
    UNION {{UnicodeDigitRows[r][i] : i \in 1..10} :
               r \in {q \in DOMAIN UnicodeDigitRows :
                          RowSince(UnicodeDigitRows[q][1]) <= u}}

DigitTable ==
    [u \in 12..15 |-> {AsciiDigits[i] : i \in 1..10} \cup UnicodeDigits(u)]

\* What \d matches under interpreter py.
Digits(py) == DigitTable[UnicodeData(py)]

\* int(c) of the one character c.
DigitVal(py, c) ==
    IF c \notin Digits(py) THEN [err |-> "ValueError", v |-> 0]
    ELSE [err |-> "ok",
          v |-> (CHOOSE i \in 1..10 :
                     \/ AsciiDigits[i] = c
                     \/ \E r \in DOMAIN UnicodeDigitRows :
                            UnicodeDigitRows[r][i] = c) - 1]

\* The index after the longest run of digits of e that starts at i (\d+ is
\* greedy, and no other part of the pattern can take a digit).
RECURSIVE SpanDigits(_, _, _)
SpanDigits(py, e, i) ==
    IF i <= Len(e) /\ e[i] \in Digits(py) THEN SpanDigits(py, e, i + 1) ELSE i

\* The whitespace int() takes off both ends of its argument.
Spaces ==
    {"\t", "\n", "U+000B", "\f", "\r", " ", "U+0085", "U+00A0", "U+1680",
     "U+2000", "U+2001", "U+2002", "U+2003", "U+2004", "U+2005", "U+2006",
     "U+2007", "U+2008", "U+2009", "U+200A", "U+2028", "U+2029", "U+202F",
     "U+205F", "U+3000"}

\* s without the whitespace at its ends
Strip(s) ==
    LET ink == {i \in 1..Len(s) : s[i] \notin Spaces}
    IN  IF ink = {} THEN <<>>
        ELSE SubSeq(s, CHOOSE i \in ink : \A j \in ink : i <= j,
                       CHOOSE i \in ink : \A j \in ink : j <= i)

\* The sign a stripped argument of int() starts with, and what follows it.
Sign(t) == IF t # <<>> /\ t[1] = "-" THEN -1 ELSE 1

Unsigned(t) == IF t # <<>> /\ t[1] \in {"+", "-"} THEN Tail(t) ELSE t

\* What int() sees in each place of body: a digit, an underscore, or a
\* character it does not take.
Kinds(py, body) ==
    [i \in 1..Len(body) |-> IF body[i] \in Digits(py) THEN "digit"
                            ELSE IF body[i] = "_" THEN "_" ELSE "other"]

\* Digits, with single underscores between digits and nowhere else.
Numeric(kinds) ==
    /\ kinds # <<>>
    /\ \A i \in 1..Len(kinds) :
           \/ kinds[i] = "digit"
           \/ /\ kinds[i] = "_"
              /\ 1 < i /\ i < Len(kinds)
              /\ kinds[i - 1] = "digit" /\ kinds[i + 1] = "digit"

\* The number the digits ds write in base 10.
RECURSIVE DecimalOf(_, _)
DecimalOf(py, ds) ==
    IF ds = <<>> THEN 0
    ELSE 10 * DecimalOf(py, SubSeq(ds, 1, Len(ds) - 1))
             + DigitVal(py, ds[Len(ds)]).v

IntOf(py, sign, body) ==
    IF Numeric(Kinds(py, body))
    THEN [err |-> "ok",
          v |-> sign * DecimalOf(py, SelectSeq(body, LAMBDA c : c # "_"))]
    ELSE [err |-> "ValueError", v |-> 0]

\* int(s) of a str s: whitespace at the ends, a sign, then digits, with
\* single underscores between digits; anything else is ValueError.
ParseInt(py, s) == IntOf(py, Sign(Strip(s)), Unsigned(Strip(s)))

\* The groups of the pattern in e, when the runs of digits that start at 1,
\* after the d and after the sign end before a, b and c: ok is whether all
\* of e matched; num, sides and mod are int(match["num"]),
\* int(match["sides"]) and int(match["mod"] or 0).
Groups(py, e, a, b, c) ==
    LET n == Len(e)
        head == a > 1 /\ a <= n /\ e[a] = "d" /\ b > a + 1
        bare == head /\ b = n + 1
        signed == head /\ b <= n /\ e[b] \in {"+", "-"} /\ c > b + 1 /\ c = n + 1
    IN  [ok    |-> bare \/ signed,
         num   |-> IF head THEN ParseInt(py, SubSeq(e, 1, a - 1)).v ELSE 0,
         sides |-> IF head THEN ParseInt(py, SubSeq(e, a + 1, b - 1)).v ELSE 0,
         mod   |-> IF signed THEN ParseInt(py, SubSeq(e, b, c - 1)).v ELSE 0]

\* The sign's run of digits, after those of the count and of the sides.
GroupsAfter(py, e, a, b) == Groups(py, e, a, b, SpanDigits(py, e, b + 1))

GroupsFrom(py, e, a) == GroupsAfter(py, e, a, SpanDigits(py, e, a + 1))

\* _roll_re.fullmatch(expr): (?P<num>\d+)d(?P<sides>\d+)(?P<mod>[+-]\d+)?
RollMatch(py, e) == GroupsFrom(py, e, SpanDigits(py, e, 1))

\* [self._rng.randint(1, sides) for _ in range(num)]: the rolls, in order,
\* and the generator state after them.  The i-th call starts where the
\* (i-1)-th left the stream.
DrawnAt(num, sides, s, acc) ==
    IF Len(acc) < num THEN [known |-> FALSE, rolls |-> <<>>, rng |-> s]
    ELSE [known |-> TRUE,
          rolls |-> [i \in 1..num |->
                        RandInt(sides, IF i = 1 THEN s
                                       ELSE [s EXCEPT !.used = acc[i - 1]]).val],
          rng |-> IF num = 0 THEN s ELSE [s EXCEPT !.used = acc[num]]]

DrawRolls(num, sides, s) ==
    DrawnAt(num, sides, s, Accepted(sides, s, Window(num, sides, s, 2 * num)))

\* return sum(rolls) + mod, rolls
RollReturn(mod, d) ==
    [known |-> d.known, err |-> "ok", raisedBy |-> "",
     total |-> SumSeq(d.rolls) + mod, rolls |-> d.rolls, rng |-> d.rng]

\* roll once the pattern was tried, with m its groups.  randint(1, 0)
\* raises ValueError (empty range) before it draws.
RollOf(m, s) ==
    IF ~m.ok
    THEN [known |-> TRUE, err |-> "ValueError", raisedBy |-> "roll",
          total |-> 0, rolls |-> <<>>, rng |-> s]
    ELSE IF m.num > 0 /\ m.sides = 0
    THEN [known |-> TRUE, err |-> "ValueError", raisedBy |-> "randrange",
          total |-> 0, rolls |-> <<>>, rng |-> s]
    ELSE RollReturn(m.mod, DrawRolls(m.num, m.sides, s))

\* DiceRoller.roll(expr) from generator state s under interpreter py.
DiceRoll(py, e, s) == RollOf(RollMatch(py, e), s)

\* ------------------------------------------------------ characters, party

\* core/character.py: Stats(), Inventory(items=[]) and Character(name),
\* where the class statement went through.
\* cls tells a dataclass instance from the dict asdict() makes of it.
DefaultStats ==
    [cls |-> "Stats", str |-> 10, dex |-> 10, con |-> 10, int |-> 10,
     wis |-> 10, cha |-> 10]

DefaultInventory == [cls |-> "Inventory", items |-> <<>>, gold |-> 0]

Character(name) ==
    [cls |-> "Character", name |-> name, stats |-> DefaultStats, hp |-> 10,
     xp |-> 0, inventory |-> DefaultInventory]

\* dataclasses.asdict: the instance and every dataclass below it become dicts.
CharacterToDict(c) ==
    [c EXCEPT !.cls = "dict", !.stats.cls = "dict", !.inventory.cls = "dict"]

\* Character.from_dict: cls(**data) stores the values it is given as they
\* are, so stats and inventory stay the dicts of the document.
CharacterFromDict(d) == [d EXCEPT !.cls = "Character"]

\* dm.party is None or a Party (a list of Characters).
NoParty == [none |-> TRUE, members |-> <<>>]

Party(members) == [none |-> FALSE, members |-> members]

\* Party.to_dict
PartyToDict(p) ==
    [hasMembers |-> TRUE,
     members |-> [i \in 1..Len(p.members) |-> CharacterToDict(p.members[i])]]

\* The dict {}: no "members" key (and, for a story, no "scenes" key).
EmptyDict == [hasMembers |-> FALSE, members |-> <<>>]

\* ------------------------------------------------------- scenes and story

SceneIds == <<"intro", "room1", "treasure", "vault", "exit">>

\* The scenes of content/campaigns/goblin_caves.yml, then plain ones.
SceneDoc(i) ==
    [keys |-> {"id", "text", "monsters", "choices"},
     id |-> SceneIds[i],
     text |-> SceneIds[i],
     monsters |-> IF i = 2 THEN <<"goblin", "goblin">> ELSE <<>>,
     choices |-> CASE i = 1 -> {<<"deeper", "room1">>}
                   [] i = 2 -> {<<"forward", "treasure">>, <<"flee", "intro">>}
                   [] OTHER -> {}]

\* What yaml.safe_load gives for the content at a story path.
CampaignPaths == {<<"campaign", n>> : n \in 0..MaxScenes}

StoryPaths ==
    CampaignPaths
        \cup {<<"absent", 0>>, <<"empty", 0>>, <<"untexted", 0>>,
              <<"rewarded", 0>>}

Content(path) ==
    CASE path[1] = "campaign" ->
           [exists |-> TRUE, hasScenes |-> TRUE,
            scenes |-> [i \in 1..path[2] |-> SceneDoc(i)]]
      [] path[1] = "absent" ->
           [exists |-> FALSE, hasScenes |-> FALSE, scenes |-> <<>>]
      [] path[1] = "empty" ->
           [exists |-> TRUE, hasScenes |-> FALSE, scenes |-> <<>>]
      [] path[1] = "untexted" ->
           [exists |-> TRUE, hasScenes |-> TRUE,
            scenes |-> <<[SceneDoc(1) EXCEPT !.keys = {"id", "monsters"}]>>]
      [] path[1] = "rewarded" ->
           [exists |-> TRUE, hasScenes |-> TRUE,
            scenes |-> <<[SceneDoc(1) EXCEPT !.keys = @ \cup {"reward"}]>>]

\* The fields of the Scene dataclass.
SceneFields == {"id", "text", "monsters", "choices"}

\* Scene(**s): id and text are required, monsters and choices default, and
\* a key that is no field is an unexpected keyword argument (TypeError).
SceneArgsOk(s) == {"id", "text"} \subseteq s.keys /\ s.keys \subseteq SceneFields

Scene(s) ==
    [cls |-> "Scene", id |-> s.id, text |-> s.text,
     monsters |-> IF "monsters" \in s.keys THEN s.monsters ELSE <<>>,
     choices |-> IF "choices" \in s.keys THEN s.choices ELSE {}]

\* asdict of a Scene, as a document a Scene can be built from again.
SceneToDict(sc) ==
    [keys |-> {"id", "text", "monsters", "choices"}, id |-> sc.id,
     text |-> sc.text, monsters |-> sc.monsters, choices |-> sc.choices]

\* dm.story is None or a StorySetup.
NoStory == [none |-> TRUE, scenes |-> <<>>]

StorySetup(scenes) == [none |-> FALSE, scenes |-> scenes]

\* StorySetup.load(path)
StorySetupLoad(path) ==
    LET raw == Content(path) IN
    IF ~raw.exists THEN [err |-> "FileNotFoundError", story |-> NoStory]
    ELSE IF ~raw.hasScenes THEN [err |-> "KeyError", story |-> NoStory]
    ELSE IF \E i \in 1..Len(raw.scenes) : ~SceneArgsOk(raw.scenes[i])
    THEN [err |-> "TypeError", story |-> NoStory]
    ELSE [err |-> "ok",
          story |-> StorySetup([i \in 1..Len(raw.scenes) |-> Scene(raw.scenes[i])])]

\* StorySetup.to_dict
StoryToDict(st) ==
    [hasScenes |-> TRUE,
     scenes |-> [i \in 1..Len(st.scenes) |-> SceneToDict(st.scenes[i])]]

NoScenesDict == [hasScenes |-> FALSE, scenes |-> <<>>]

\* ----------------------------------------------------------- the Director

\* DM.__init__(rng_seed)
NewDM(seed) ==
    [dice |-> SeedState(seed), party |-> NoParty, story |-> NoStory,
     current_scene_idx |-> -1]

\* DMStart with the party and the cursor reset before the story is loaded.
DMStartEager(d, path) ==
    LET r == StorySetupLoad(path)
        reset == [d EXCEPT !.party = Party(<<>>), !.current_scene_idx = 0]
    IN  IF r.err # "ok" THEN [err |-> r.err, dm |-> reset]
        ELSE [err |-> "ok", dm |-> [reset EXCEPT !.story = r.story]]

\* DM.start(story_path): the story is assigned only once it has loaded.
DMStart(d, path) ==
    LET r == StorySetupLoad(path) IN
    IF r.err # "ok" THEN [err |-> r.err, dm |-> d]
    ELSE [err |-> "ok",
          dm |-> [d EXCEPT !.story = r.story, !.party = Party(<<>>),
                           !.current_scene_idx = 0]]

\* The guard of DM.play_next: which exception it raises before it acts.
PlayNextGuard(d) ==
    IF d.story.none \/ d.party.none THEN "RuntimeError"
    ELSE IF ~PyIndexOk(d.current_scene_idx, Len(d.story.scenes)) THEN "IndexError"
    ELSE "ok"

\* DMPlayNext with the win test off by one (> for >=).
DMPlayNextLateWin(d) ==
    LET g == PlayNextGuard(d)
        nxt == d.current_scene_idx + 1
    IN  IF g # "ok"
        THEN [err |-> g, dm |-> d, entered |-> FALSE, shown |-> "", won |-> FALSE]
        ELSE [err |-> "ok", dm |-> [d EXCEPT !.current_scene_idx = nxt],
              entered |-> TRUE,
              shown |-> PyIndex(d.story.scenes, d.current_scene_idx).text,
              won |-> nxt > Len(d.story.scenes)]

\* DMPlayNext with the cursor advanced twice (once more on entering).
DMPlayNextTwice(d) ==
    LET g == PlayNextGuard(d)
        nxt == d.current_scene_idx + 2
    IN  IF g # "ok"
        THEN [err |-> g, dm |-> d, entered |-> FALSE, shown |-> "", won |-> FALSE]
        ELSE [err |-> "ok", dm |-> [d EXCEPT !.current_scene_idx = nxt],
              entered |-> TRUE,
              shown |-> PyIndex(d.story.scenes, d.current_scene_idx).text,
              won |-> nxt >= Len(d.story.scenes)]

\* DMPlayNext with a scene of monsters drawing from the Director's dice.
DMPlayNextCombat(d) ==
    LET g == PlayNextGuard(d)
        nxt == d.current_scene_idx + 1
    IN  IF g # "ok"
        THEN [err |-> g, dm |-> d, entered |-> FALSE, shown |-> "", won |-> FALSE]
        ELSE [err |-> "ok",
              dm |-> [d EXCEPT
                        !.current_scene_idx = nxt,
                        !.dice = IF PyIndex(d.story.scenes,
                                            d.current_scene_idx).monsters # <<>>
                                 THEN RngNext(@) ELSE @],
              entered |-> TRUE,
              shown |-> PyIndex(d.story.scenes, d.current_scene_idx).text,
              won |-> nxt >= Len(d.story.scenes)]

\* DM.play_next(): entered is whether scene.enter ran, shown the text it
\* printed, won whether win_screen was called.
DMPlayNext(d) ==
    LET g == PlayNextGuard(d)
        nxt == d.current_scene_idx + 1
    IN  IF g # "ok"
        THEN [err |-> g, dm |-> d, entered |-> FALSE, shown |-> "", won |-> FALSE]
        ELSE [err |-> "ok", dm |-> [d EXCEPT !.current_scene_idx = nxt],
              entered |-> TRUE,
              shown |-> PyIndex(d.story.scenes, d.current_scene_idx).text,
              won |-> nxt >= Len(d.story.scenes)]

\* dm.dice.roll(expr)
DMRoll(py, d, e) ==
    LET r == DiceRoll(py, e, d.dice) IN
    [known |-> r.known, err |-> r.err, dm |-> [d EXCEPT !.dice = r.rng]]

\* The character-creation step outside the core: dm.party.append(Character(..)).
DMRecruit(d, name) ==
    [d EXCEPT !.party.members = Append(@, Character(name))]

\* ------------------------------------------------------------ GameState

\* The fields of the GameState dataclass, none with a default.
FieldOrder == <<"party", "story_state", "current_scene_idx", "rng_state">>

SnapshotFields == {FieldOrder[i] : i \in DOMAIN FieldOrder}

\* GameState.from_dm: a None or empty party becomes {}, a None story {}.
\* rng_state is the tuple of Random.getstate().
FromDm(d) ==
    [party |-> IF d.party.none \/ d.party.members = <<>>
               THEN EmptyDict ELSE PartyToDict(d.party),
     story_state |-> IF d.story.none THEN NoScenesDict ELSE StoryToDict(d.story),
     current_scene_idx |-> d.current_scene_idx,
     rng_state |-> [shape |-> "tuple", val |-> d.dice]]

\* GameState.apply_to_dm, one assignment after the other: an exception
\* leaves the assignments before it in place.  Random.setstate takes the
\* tuple of getstate() and raises TypeError for a list.
ApplyToDm(gs, d) ==
    IF ~gs.party.hasMembers THEN [err |-> "KeyError", dm |-> d]
    ELSE
    LET d1 == [d EXCEPT !.party =
                 Party([i \in 1..Len(gs.party.members) |->
                            CharacterFromDict(gs.party.members[i])])]
    IN
    IF ~gs.story_state.hasScenes THEN [err |-> "KeyError", dm |-> d1]
    ELSE IF \E i \in 1..Len(gs.story_state.scenes) :
                ~SceneArgsOk(gs.story_state.scenes[i])
    THEN [err |-> "TypeError", dm |-> d1]
    ELSE
    LET d2 == [d1 EXCEPT !.story =
                 StorySetup([i \in 1..Len(gs.story_state.scenes) |->
                                 Scene(gs.story_state.scenes[i])])]
        d3 == [d2 EXCEPT !.current_scene_idx = gs.current_scene_idx]
    IN
    IF gs.rng_state.shape # "tuple" THEN [err |-> "TypeError", dm |-> d3]
    ELSE [err |-> "ok", dm |-> [d3 EXCEPT !.dice = gs.rng_state.val]]

\* ---------------------------------------------------------- persistence

\* json.dump(state.to_dict()): the document holds every field, and the
\* tuple of the generator state is written as a list.
JsonDump(gs) ==
    [keys |-> SnapshotFields, party |-> gs.party, story_state |-> gs.story_state,
     current_scene_idx |-> gs.current_scene_idx,
     rng_state |-> [gs.rng_state EXCEPT !.shape = "list"]]

NoFile == [exists |-> FALSE, doc |-> JsonDump(FromDm(NewDM(0)))]

\* Documents that did not come from this session's save(): none at
\* <<"nowhere", 0>>, at <<"session", 0>> what the Director of another session
\* saved (one scene, one member, cursor 0), at <<"without", i>> that
\* document with the field FieldOrder[i] taken out, and at
\* <<"storyless", 0>> a document with the party {"members": []} and the
\* story_state {}.
SampleDM == DMRecruit(DMStart(NewDM(0), <<"campaign", 1>>).dm, "hero")

ForeignPaths ==
    {<<"nowhere", 0>>, <<"session", 0>>, <<"storyless", 0>>}
        \cup {<<"without", i>> : i \in DOMAIN FieldOrder}

ForeignFile(path) ==
    IF path[1] = "nowhere" THEN NoFile
    ELSE IF path[1] = "session"
    THEN [exists |-> TRUE, doc |-> JsonDump(FromDm(SampleDM))]
    ELSE IF path[1] = "storyless"
    THEN [exists |-> TRUE,
          doc |-> [JsonDump(FromDm(SampleDM)) EXCEPT
                     !.party = [hasMembers |-> TRUE, members |-> <<>>],
                     !.story_state = NoScenesDict]]
    ELSE [exists |-> TRUE,
          doc |-> [JsonDump(FromDm(SampleDM)) EXCEPT
                     !.keys = SnapshotFields \ {FieldOrder[path[2]]}]]

SavePath == <<"save", 0>>

\* SerializerLoad that takes whatever fields the document has.
SerializerLoadLenient(f) ==
    IF ~f.exists THEN [err |-> "FileNotFoundError", gs |-> FromDm(NewDM(0))]
    ELSE [err |-> "ok",
          gs |-> [party |-> f.doc.party, story_state |-> f.doc.story_state,
                  current_scene_idx |-> f.doc.current_scene_idx,
                  rng_state |-> f.doc.rng_state]]

\* Serializer.load(path) of the document f: GameState.from_dict is
\* GameState(**data), a TypeError unless data has exactly the four fields.
SerializerLoad(f) ==
    IF ~f.exists THEN [err |-> "FileNotFoundError", gs |-> FromDm(NewDM(0))]
    ELSE IF f.doc.keys # SnapshotFields
    THEN [err |-> "TypeError", gs |-> FromDm(NewDM(0))]
    ELSE [err |-> "ok",
          gs |-> [party |-> f.doc.party, story_state |-> f.doc.story_state,
                  current_scene_idx |-> f.doc.current_scene_idx,
                  rng_state |-> f.doc.rng_state]]

\* DM.save(path): the document written.
DMSave(d) == [exists |-> TRUE, doc |-> JsonDump(FromDm(d))]

\* DM.load(path) of the document f.
DMLoad(d, f) ==
    LET r == SerializerLoad(f) IN
    IF r.err # "ok" THEN [err |-> r.err, dm |-> d] ELSE ApplyToDm(r.gs, d)

\* ------------------------------------------------------- the operations

Seeds == {0, 1}

\* The expressions the session hands to dm.dice.roll: one valid, one not.
SessionExprs == {<<"1", "d", "2">>, <<"d", "2">>}

\* The Directors a snapshot is applied to: a new one and a started one.
OtherDMs == {NewDM(0), DMStart(NewDM(1), <<"campaign", 1>>).dm}

\* The history before any operation.  An operation other than play_next
\* ends the count of play_next calls; begun tells whether start() was
\* called or a load() returned without an exception, now or before.
NoRun == [calls |-> -1, wins |-> 0, begun |-> FALSE]

\* The record of an operation: its name, the path it was given, the
\* exception it raised ("ok": none), whether it entered a scene and the
\* text that printed, whether it called win_screen, and the Director a
\* snapshot was applied to.
Op(op, path, err) ==
    [op |-> op, arg |-> path, err |-> err, entered |-> FALSE, shown |-> "",
     won |-> FALSE, d2 |-> NewDM(0)]

NoPath == <<"", 0>>

Idle == [expr |-> <<>>, done |-> FALSE, err |-> "", raisedBy |-> "",
         total |-> 0, rolls |-> <<>>, before |-> SeedState(0)]

\* What a roll returned: the exception, who raised it, the total, the rolls.
NoOut == [err |-> "", raisedBy |-> "", total |-> 0, rolls |-> <<>>]

\* No state taken from a roller yet.
NoSnap == [none |-> TRUE, shape |-> "tuple", val |-> SeedState(0)]

\* The values of the variables a specification does not use.
NoBench ==
    [script |-> <<>>, rng |-> <<SeedState(0), SeedState(0)>>, outs |-> <<<<>>, <<>>>>, pos |-> 0,
     snap |-> NoSnap, mark |-> 0, recent |-> [at |-> 0, again |-> FALSE, out |-> NoOut]]

NoCensus == [members |-> <<>>, asked |-> FALSE, alive |-> FALSE]

NoCli == [pc |-> "off", by |-> "", cmd |-> <<>>, did |-> "", err |-> ""]

NoShare ==
    [work |-> "", directors |-> <<NewDM(0), NewDM(0)>>, objs |-> <<>>,
     chars |-> <<>>, did |-> [op |-> "", who |-> 0, err |-> ""]]

NoHero ==
    [built |-> FALSE, op |-> "", asked |-> 0, err |-> "", name |-> "",
     race |-> "",
     char_class |-> "", level |-> 0, abilities |-> <<>>,
     max_hp |-> [none |-> TRUE, val |-> 0], proficiency_bonus |-> 0]

\* The build the program starts in: an interpreter, and nothing imported yet.
Fresh(py) == [python |-> py, err |-> ""]

\* Module mod of the package can be used: its import goes through.
Loaded(mod) == build.err = "" /\ Import(mod, build.python) = "ok"

\* import of module mod where it raises: the program ends with the
\* exception, and there is nothing of the module to work with.
ImportFails(mod) ==
    /\ build.err = ""
    /\ Import(mod, build.python) # "ok"
    /\ build' = [build EXCEPT !.err = Import(mod, build.python)]
    /\ UNCHANGED <<dm, run, file, saved, last, roller, rolled, apart>>

Init ==
    /\ build \in {Fresh(py) : py \in Builds}
    /\ dm \in {NewDM(seed) : seed \in Seeds}
    /\ run = NoRun
    /\ file = NoFile
    /\ saved = NewDM(0)
    /\ last = Op("init", NoPath, "ok")
    /\ roller = SeedState(0)
    /\ rolled = Idle
    /\ bench = NoBench
    /\ census = NoCensus
    /\ cli = NoCli
    /\ share = NoShare
    /\ hero = NoHero

Start(path) ==
    LET r == DMStart(dm, path) IN
    /\ Loaded("core.dm")
    /\ dm' = r.dm
    /\ run' = [calls |-> IF r.err = "ok" THEN 0 ELSE -1, wins |-> 0, begun |-> TRUE]
    /\ last' = Op("start", path, r.err)
    /\ UNCHANGED <<build, file, saved, roller, rolled, apart>>

PlayNext ==
    LET r == DMPlayNext(dm) IN
    /\ Loaded("core.dm")
    /\ dm' = r.dm
    /\ run' = IF run.calls < 0 THEN run
              ELSE [run EXCEPT
                      !.calls = Min(run.calls + 1, MaxCalls),
                      !.wins = Min(run.wins + (IF r.won THEN 1 ELSE 0), MaxCalls)]
    /\ last' = [Op("play_next", NoPath, r.err) EXCEPT
                   !.entered = r.entered, !.shown = r.shown, !.won = r.won]
    /\ UNCHANGED <<build, file, saved, roller, rolled, apart>>

Save ==
    /\ Loaded("core.dm")
    /\ file' = DMSave(dm)
    /\ saved' = dm
    /\ run' = [run EXCEPT !.calls = -1, !.wins = 0]
    /\ last' = Op("save", SavePath, "ok")
    /\ UNCHANGED <<build, dm, roller, rolled, apart>>

Load ==
    LET r == DMLoad(dm, file) IN
    /\ Loaded("core.dm")
    /\ dm' = r.dm
    /\ run' = [calls |-> -1, wins |-> 0, begun |-> run.begun \/ r.err = "ok"]
    /\ last' = Op("load", SavePath, r.err)
    /\ UNCHANGED <<build, file, saved, roller, rolled, apart>>

LoadForeign(path) ==
    LET r == DMLoad(dm, ForeignFile(path)) IN
    /\ Loaded("core.dm")
    /\ dm' = r.dm
    /\ run' = [calls |-> -1, wins |-> 0, begun |-> run.begun \/ r.err = "ok"]
    /\ last' = Op("load_foreign", path, r.err)
    /\ UNCHANGED <<build, file, saved, roller, rolled, apart>>

Roll(e) ==
    LET r == DMRoll(build.python, dm, e) IN
    /\ Loaded("core.dm")
    /\ r.known
    /\ r.dm.dice.used <= MaxSpent
    /\ dm' = r.dm
    /\ run' = [run EXCEPT !.calls = -1, !.wins = 0]
    /\ last' = Op("roll", NoPath, r.err)
    /\ UNCHANGED <<build, file, saved, roller, rolled, apart>>

Recruit ==
    /\ Loaded("core.dm")
    /\ ~dm.party.none
    /\ Len(dm.party.members) < MaxParty
    /\ dm' = DMRecruit(dm, "hero")
    /\ run' = [run EXCEPT !.calls = -1, !.wins = 0]
    /\ last' = Op("recruit", NoPath, "ok")
    /\ UNCHANGED <<build, file, saved, roller, rolled, apart>>

\* GameState.from_dm(dm).apply_to_dm(d2): d2 afterwards is kept in last.
Transfer(d2) ==
    LET r == ApplyToDm(FromDm(dm), d2) IN
    /\ Loaded("core.dm")
    /\ last' = [Op("transfer", NoPath, r.err) EXCEPT !.d2 = r.dm]
    /\ run' = [run EXCEPT !.calls = -1, !.wins = 0]
    /\ UNCHANGED <<build, dm, file, saved, roller, rolled, apart>>

Next ==
    \/ ImportFails("core.dm")
    \/ \E path \in StoryPaths : Start(path)
    \/ PlayNext
    \/ Save
    \/ Load
    \/ \E path \in ForeignPaths : LoadForeign(path)
    \/ \E e \in SessionExprs : Roll(e)
    \/ Recruit
    \/ \E d2 \in OtherDMs : Transfer(d2)

Spec == Init /\ [][Next]_vars

\* ------------------------------------------------ the stand-alone roller

Alphabet ==
    {"0", "2", "U+0663", "U+16AC2", "U+11F52", "d", "x", "+", "-", " "}

Exprs == UNION {[1..n -> Alphabet] : n \in 0..MaxLen}

InitDice ==
    /\ build \in {Fresh(py) : py \in Builds}
    /\ dm = NewDM(0)
    /\ run = NoRun
    /\ file = NoFile
    /\ saved = NewDM(0)
    /\ last = Op("init", NoPath, "ok")
    /\ roller \in {SeedState(seed) : seed \in 0..MaxSeed}
    /\ rolled = [Idle EXCEPT !.before = roller]
    /\ bench = NoBench
    /\ census = NoCensus
    /\ cli = NoCli
    /\ share = NoShare
    /\ hero = NoHero

\* roller.roll(e), for an expression e of Exprs
RollerRoll ==
    /\ Loaded("core.dice")
    /\ ~rolled.done
    /\ \E e \in Exprs :
           LET r == DiceRoll(build.python, e, roller) IN
           /\ r.known
           /\ roller' = r.rng
           /\ rolled' = [expr |-> e, done |-> TRUE, err |-> r.err,
                         raisedBy |-> r.raisedBy, total |-> r.total,
                         rolls |-> r.rolls, before |-> roller]
    /\ UNCHANGED <<build, dm, run, file, saved, last, apart>>

NextDice ==
    \/ ImportFails("core.dice")
    \/ RollerRoll

SpecDice == InitDice /\ [][NextDice]_vars

\* ------------------------------------------- two rollers of the same seed

\* The expressions of a script of rolls: one die, two dice and a modifier,
\* one that roll refuses, and one whose count is a digit from Unicode 14.0 on.
ScriptExprs ==
    {<<"1", "d", "2">>, <<"2", "d", "2", "+", "2">>, <<"d", "2">>,
     <<"U+16AC2", "d", "2">>}

Scripts == UNION {[1..n -> ScriptExprs] : n \in 0..MaxRolls}

\* What the caller of roll sees of DiceRoll's result.
OutOf(r) ==
    [err |-> r.err, raisedBy |-> r.raisedBy, total |-> r.total,
     rolls |-> r.rolls]

\* rollers[i].roll(e): each DiceRoller draws from its own random.Random.
RollOnShared(py, rngs, i, e) ==
    LET r == DiceRoll(py, e, rngs[1]) IN
    [known |-> r.known, out |-> OutOf(r), rng |-> <<r.rng, r.rng>>]

RollOn(py, rngs, i, e) ==
    LET r == DiceRoll(py, e, rngs[i]) IN
    [known |-> r.known, out |-> OutOf(r), rng |-> [rngs EXCEPT ![i] = r.rng]]

\* get_state(): the generator's state as a tuple; the generator stays put.
DiceGetStateDrawing(s) ==
    [snap |-> [none |-> FALSE, shape |-> "tuple", val |-> s],
     rng |-> RngNext(s)]

DiceGetState(s) ==
    [snap |-> [none |-> FALSE, shape |-> "tuple", val |-> s], rng |-> s]

\* set_state(state): random.Random.setstate takes a tuple and nothing else.
DiceSetState(s, state) ==
    IF state.shape # "tuple" THEN [err |-> "TypeError", rng |-> s]
    ELSE [err |-> "ok", rng |-> state.val]

InitRollers ==
    /\ build \in {Fresh(py) : py \in Builds}
    /\ dm = NewDM(0)
    /\ run = NoRun
    /\ file = NoFile
    /\ saved = NewDM(0)
    /\ last = Op("init", NoPath, "ok")
    /\ roller = SeedState(0)
    /\ rolled = Idle
    /\ \E sc \in Scripts, seed \in 0..MaxSeed :
           bench = [NoBench EXCEPT !.script = sc,
                                   !.rng = <<SeedState(seed), SeedState(seed)>>]
    /\ census = NoCensus
    /\ cli = NoCli
    /\ share = NoShare
    /\ hero = NoHero

\* The first roller rolls the expression at its place in the script; the
\* result is kept the first time the place is rolled.
BenchRollFirst ==
    LET k == bench.pos + 1 IN
    /\ Loaded("core.dice")
    /\ k <= Len(bench.script)
    /\ LET r == RollOn(build.python, bench.rng, 1, bench.script[k])
           again == k <= Len(bench.outs[1])
       IN  /\ r.known
           /\ bench' = [bench EXCEPT
                        !.rng = r.rng,
                        !.pos = k,
                        !.outs[1] = IF again THEN @ ELSE Append(@, r.out),
                        !.recent = [at |-> k, again |-> again,
                                    out |-> r.out]]
    /\ UNCHANGED <<build, dm, run, file, saved, last, roller, rolled, census, cli,
                   share, hero>>

\* The second roller rolls the next expression of the script.
BenchRollSecond ==
    LET k == Len(bench.outs[2]) + 1 IN
    /\ Loaded("core.dice")
    /\ k <= Len(bench.script)
    /\ LET r == RollOn(build.python, bench.rng, 2, bench.script[k])
       IN  /\ r.known
           /\ bench' = [bench EXCEPT !.rng = r.rng,
                                     !.outs[2] = Append(@, r.out)]
    /\ UNCHANGED <<build, dm, run, file, saved, last, roller, rolled, census, cli,
                   share, hero>>

\* s = rollers[1].get_state(), at the first roller's place in the script
BenchGetState ==
    LET g == DiceGetState(bench.rng[1]) IN
    /\ Loaded("core.dice")
    /\ bench' = [bench EXCEPT !.snap = g.snap, !.mark = bench.pos,
                              !.rng[1] = g.rng]
    /\ UNCHANGED <<build, dm, run, file, saved, last, roller, rolled, census, cli,
                   share, hero>>

\* rollers[1].set_state(s); the caller goes back to the place s was taken at
BenchSetState ==
    /\ Loaded("core.dice")
    /\ ~bench.snap.none
    /\ LET r == DiceSetState(bench.rng[1], bench.snap)
       IN  /\ r.err = "ok"
           /\ bench' = [bench EXCEPT !.rng[1] = r.rng, !.pos = bench.mark]
    /\ UNCHANGED <<build, dm, run, file, saved, last, roller, rolled, census, cli,
                   share, hero>>

NextRollers ==
    \/ ImportFails("core.dice")
    \/ BenchRollFirst
    \/ BenchRollSecond
    \/ BenchGetState
    \/ BenchSetState

SpecRollers == InitRollers /\ [][NextRollers]_vars

\* ------------------------------------------------------ a party's members

\* Hit points of a member: below zero, zero, one, and the default.
HitPoints == {-1, 0, 1, 10}

\* Character(name, hp=hp)
CharacterWithHp(name, hp) == [Character(name) EXCEPT !.hp = hp]

\* any(iterable): true at the first true element, false when there is none.
RECURSIVE PyAny(_)
PyAny(bools) ==
    IF bools = <<>> THEN FALSE
    ELSE IF Head(bools) THEN TRUE
    ELSE PyAny(Tail(bools))

\* The element of the generator of any_alive: ch.hp > 0.
AliveAtZero(ch) == ch.hp >= 0

Alive(ch) == ch.hp > 0

\* Party.any_alive()
PartyAnyAlive(members) ==
    PyAny([i \in 1..Len(members) |-> Alive(members[i])])

InitParty ==
    /\ build \in {Fresh(py) : py \in Builds}
    /\ dm = NewDM(0)
    /\ run = NoRun
    /\ file = NoFile
    /\ saved = NewDM(0)
    /\ last = Op("init", NoPath, "ok")
    /\ roller = SeedState(0)
    /\ rolled = Idle
    /\ bench = NoBench
    /\ census = NoCensus
    /\ cli = NoCli
    /\ share = NoShare
    /\ hero = NoHero

\* party.append(Character("hero", hp=hp))
Join(hp) ==
    /\ Loaded("core.party")
    /\ Len(census.members) < MaxMembers
    /\ census' = [census EXCEPT
                     !.members = Append(@, CharacterWithHp("hero", hp)),
                     !.asked = FALSE, !.alive = FALSE]
    /\ UNCHANGED <<build, dm, run, file, saved, last, roller, rolled, bench, cli,
                   share, hero>>

\* party.any_alive()
AskAlive ==
    /\ Loaded("core.party")
    /\ ~census.asked
    /\ census' = [census EXCEPT !.asked = TRUE,
                                !.alive = PartyAnyAlive(census.members)]
    /\ UNCHANGED <<build, dm, run, file, saved, last, roller, rolled, bench, cli,
                   share, hero>>

NextParty ==
    \/ ImportFails("core.party")
    \/ \E hp \in HitPoints : Join(hp)
    \/ AskAlive

SpecParty == InitParty /\ [][NextParty]_vars

\* ------------------------------------------------- the interactive loop

\* content/campaigns/goblin_caves.yml: intro, room1, treasure.
GoblinCaves == <<"campaign", 3>>

\* Lines the player types: empty, save and quit in both cases, other text,
\* and text that holds an s or a q but does not start with it.
Cmds ==
    {<<>>, <<"s">>, <<"S", "a", "v", "e">>, <<"q">>, <<"Q">>, <<"n">>,
     <<" ", "s">>, <<"x", "q">>}

\* str.lower() on the characters of Cmds.
LowerChar(c) ==
    CASE c = "S" -> "s"
      [] c = "Q" -> "q"
      [] OTHER -> c

PyLower(str) == [i \in DOMAIN str |-> LowerChar(str[i])]

\* str.startswith(c) for a prefix of one character.
StartsWith(str, c) == Len(str) >= 1 /\ str[1] = c

\* The branch of the loop an input takes.
Dispatch(cmd) ==
    IF StartsWith(PyLower(cmd), "s") THEN "save"
    ELSE IF StartsWith(PyLower(cmd), "q") THEN "quit"
    ELSE "play_next"

\* main() is entered: dm = DM(), seeded from the system.
InitCli ==
    /\ build \in {Fresh(py) : py \in Builds}
    /\ dm \in {NewDM(seed) : seed \in 0..MaxSeed}
    /\ run = NoRun
    /\ file = NoFile
    /\ saved = NewDM(0)
    /\ last = Op("init", NoPath, "ok")
    /\ roller = SeedState(0)
    /\ rolled = Idle
    /\ bench = NoBench
    /\ census = NoCensus
    /\ cli = [NoCli EXCEPT !.pc = "boot"]
    /\ share = NoShare
    /\ hero = NoHero

\* dm.start(.../goblin_caves.yml); an exception ends main.
CliStart ==
    LET r == DMStart(dm, GoblinCaves) IN
    /\ Loaded("adapters.cli")
    /\ cli.pc = "boot"
    /\ dm' = r.dm
    /\ cli' = IF r.err = "ok"
              THEN [cli EXCEPT !.pc = "loop", !.did = "start", !.err = "ok"]
              ELSE [cli EXCEPT !.pc = "ended", !.by = "error",
                               !.did = "start", !.err = r.err]
    /\ UNCHANGED <<build, run, file, saved, last, roller, rolled, bench, census,
                   share, hero>>

\* What input() raises instead of returning a line: the end of the input
\* (stdin closed or a script run out) and Ctrl-C.
PromptErrors == {"EOFError", "KeyboardInterrupt"}

\* cmd = input(...) raises; the loop catches nothing, main ends.
CliInputRaises(exc) ==
    /\ Loaded("adapters.cli")
    /\ cli.pc = "loop"
    /\ cli' = [cli EXCEPT !.pc = "ended", !.by = "error", !.did = "input",
                          !.err = exc]
    /\ UNCHANGED <<build, dm, run, file, saved, last, roller, rolled, bench,
                   census,
                   share, hero>>

\* cmd.lower().startswith("s"): dm.save(Path("save.json")); print("Saved.")
CliSave(cmd) ==
    /\ Loaded("adapters.cli")
    /\ cli.pc = "loop"
    /\ Dispatch(cmd) = "save"
    /\ file' = DMSave(dm)
    /\ cli' = [cli EXCEPT !.cmd = cmd, !.did = "save", !.err = "ok"]
    /\ UNCHANGED <<build, dm, run, saved, last, roller, rolled, bench, census,
                   share, hero>>

\* cmd.lower().startswith("q"): break
CliQuit(cmd) ==
    /\ Loaded("adapters.cli")
    /\ cli.pc = "loop"
    /\ Dispatch(cmd) = "quit"
    /\ cli' = [cli EXCEPT !.pc = "ended", !.by = "quit", !.cmd = cmd,
                          !.did = "quit", !.err = "ok"]
    /\ UNCHANGED <<build, dm, run, file, saved, last, roller, rolled, bench, census,
                   share, hero>>

\* else: dm.play_next(); the loop catches nothing, an exception ends main.
CliAdvance(cmd) ==
    LET r == DMPlayNext(dm) IN
    /\ Loaded("adapters.cli")
    /\ cli.pc = "loop"
    /\ Dispatch(cmd) = "play_next"
    /\ dm' = r.dm
    /\ cli' = IF r.err = "ok"
              THEN [cli EXCEPT !.cmd = cmd, !.did = "play_next", !.err = "ok"]
              ELSE [cli EXCEPT !.pc = "ended", !.by = "error", !.cmd = cmd,
                               !.did = "play_next", !.err = r.err]
    /\ UNCHANGED <<build, run, file, saved, last, roller, rolled, bench, census,
                   share, hero>>

NextCli ==
    \/ ImportFails("adapters.cli")
    \/ CliStart
    \/ \E exc \in PromptErrors : CliInputRaises(exc)
    \/ \E cmd \in Cmds : CliSave(cmd)
    \/ \E cmd \in Cmds : CliQuit(cmd)
    \/ \E cmd \in Cmds : CliAdvance(cmd)

SpecCli == InitCli /\ [][NextCli]_vars

\* ------------------------------------- several instances and their objects

\* The Stats and Inventory objects there can be: the two made once by the
\* class statement of Character as the defaults of its fields, and those a
\* caller makes for the i-th Character.
Refs ==
    {<<"Stats", 0>>, <<"Inventory", 0>>}
        \cup {<<"Stats", i>> : i \in 1..MaxChars}
        \cup {<<"Inventory", i>> : i \in 1..MaxChars}

\* Every object as its constructor leaves it.
NewObjs ==
    [r \in Refs |-> IF r[1] = "Stats" THEN DefaultStats ELSE DefaultInventory]

\* Character("hero") when own is false, and
\* Character("hero", stats=Stats(), inventory=Inventory(items=[])) when true:
\* the fields hold references.
CharacterRefs(i, own) ==
    [name |-> "hero", hp |-> 10, xp |-> 0,
     stats |-> <<"Stats", IF own THEN i ELSE 0>>,
     inventory |-> <<"Inventory", IF own THEN i ELSE 0>>]

\* What the c-th Character looks like through its references.
CharView(sh, c) ==
    [name |-> sh.chars[c].name, hp |-> sh.chars[c].hp, xp |-> sh.chars[c].xp,
     stats |-> sh.objs[sh.chars[c].stats],
     inventory |-> sh.objs[sh.chars[c].inventory]]

\* The two Directors.
Pair == {1, 2}

\* A program of SpecShare works with Characters and the objects they hold,
\* or with two Directors and the path they save to (share.work).  Nothing
\* of the one is reached from the other (a Director's party here holds
\* Characters made with stats and inventory of their own), so a program
\* that did both would show, step by step, what the two kinds show.
Did(op, who, err) == [op |-> op, who |-> who, err |-> err]

InitShare ==
    /\ build \in {Fresh(py) : py \in Builds}
    /\ dm = NewDM(0)
    /\ run = NoRun
    /\ file = NoFile
    /\ saved = NewDM(0)
    /\ last = Op("init", NoPath, "ok")
    /\ roller = SeedState(0)
    /\ rolled = Idle
    /\ bench = NoBench
    /\ census = NoCensus
    /\ cli = NoCli
    /\ \E seed \in Seeds, work \in {"characters", "directors"} :
           share = [NoShare EXCEPT !.work = work,
                                   !.objs = NewObjs,
                                   !.directors = <<NewDM(seed), NewDM(seed)>>]
    /\ hero = NoHero

ShareCharacter(own) ==
    LET i == Len(share.chars) + 1 IN
    /\ Loaded("core.character")
    /\ share.work = "characters"
    /\ i <= MaxChars
    /\ share' = [share EXCEPT !.chars = Append(@, CharacterRefs(i, own)),
                              !.did = Did("Character", i, "ok")]
    /\ UNCHANGED <<build, dm, run, file, saved, last, roller, rolled, bench, census,
                   cli, hero>>

\* chars[c].inventory.items.append("sword")
ShareAddItem(c) ==
    /\ Loaded("core.character")
    /\ share.work = "characters"
    /\ c \in DOMAIN share.chars
    /\ Len(share.objs[share.chars[c].inventory].items) < MaxLoot
    /\ share' = [share EXCEPT
                    !.objs[share.chars[c].inventory].items = Append(@, "sword"),
                    !.did = Did("add_item", c, "ok")]
    /\ UNCHANGED <<build, dm, run, file, saved, last, roller, rolled, bench, census,
                   cli, hero>>

\* chars[c].inventory.gold += 1
ShareAddGold(c) ==
    /\ Loaded("core.character")
    /\ share.work = "characters"
    /\ c \in DOMAIN share.chars
    /\ share.objs[share.chars[c].inventory].gold < MaxLoot
    /\ share' = [share EXCEPT
                    !.objs[share.chars[c].inventory].gold = @ + 1,
                    !.did = Did("add_gold", c, "ok")]
    /\ UNCHANGED <<build, dm, run, file, saved, last, roller, rolled, bench, census,
                   cli, hero>>

\* chars[c].stats.str = 18
ShareTrain(c) ==
    /\ Loaded("core.character")
    /\ share.work = "characters"
    /\ c \in DOMAIN share.chars
    /\ share.objs[share.chars[c].stats].str = 10
    /\ share' = [share EXCEPT !.objs[share.chars[c].stats].str = 18,
                              !.did = Did("train", c, "ok")]
    /\ UNCHANGED <<build, dm, run, file, saved, last, roller, rolled, bench, census,
                   cli, hero>>

\* directors[d].start(path): DM.__init__ and start make the Director's
\* DiceRoller, Party and StorySetup anew, so a Director holds no object of
\* another and is kept by value.
ShareStart(d) ==
    LET r == DMStart(share.directors[d], <<"campaign", 1>>) IN
    /\ Loaded("core.dm")
    /\ share.work = "directors"
    /\ share' = [share EXCEPT !.directors[d] = r.dm,
                              !.did = Did("start", d, r.err)]
    /\ UNCHANGED <<build, dm, run, file, saved, last, roller, rolled, bench, census,
                   cli, hero>>

SharePlayNext(d) ==
    LET r == DMPlayNext(share.directors[d]) IN
    /\ Loaded("core.dm")
    /\ share.work = "directors"
    /\ share' = [share EXCEPT !.directors[d] = r.dm,
                              !.did = Did("play_next", d, r.err)]
    /\ UNCHANGED <<build, dm, run, file, saved, last, roller, rolled, bench, census,
                   cli, hero>>

ShareRoll(d) ==
    LET r == DMRoll(build.python, share.directors[d], <<"1", "d", "2">>) IN
    /\ Loaded("core.dm")
    /\ share.work = "directors"
    /\ r.known
    /\ r.dm.dice.used <= MaxSpent
    /\ share' = [share EXCEPT !.directors[d] = r.dm,
                              !.did = Did("roll", d, r.err)]
    /\ UNCHANGED <<build, dm, run, file, saved, last, roller, rolled, bench, census,
                   cli, hero>>

\* directors[d].party.append(Character("hero", stats=Stats(),
\* inventory=Inventory(items=[]))): the character-creation step, with
\* objects no other Character holds.
ShareRecruit(d) ==
    /\ Loaded("core.dm")
    /\ share.work = "directors"
    /\ ~share.directors[d].party.none
    /\ Len(share.directors[d].party.members) < MaxParty
    /\ share' = [share EXCEPT !.directors[d] = DMRecruit(@, "hero"),
                              !.did = Did("recruit", d, "ok")]
    /\ UNCHANGED <<build, dm, run, file, saved, last, roller, rolled, bench, census,
                   cli, hero>>

\* directors[d].save(path): the two Directors write to one path.
ShareSave(d) ==
    /\ Loaded("core.dm")
    /\ share.work = "directors"
    /\ file' = DMSave(share.directors[d])
    /\ share' = [share EXCEPT !.did = Did("save", d, "ok")]
    /\ UNCHANGED <<build, dm, run, saved, last, roller, rolled, bench, census,
                   cli, hero>>

\* directors[d].load(path) of what is at the path, be it the save of the
\* other Director: json.load builds the dicts and lists anew, so what
\* apply_to_dm assigns belongs to directors[d] alone.
ShareLoad(d) ==
    LET r == DMLoad(share.directors[d], file) IN
    /\ Loaded("core.dm")
    /\ share.work = "directors"
    /\ share' = [share EXCEPT !.directors[d] = r.dm,
                              !.did = Did("load", d, r.err)]
    /\ UNCHANGED <<build, dm, run, file, saved, last, roller, rolled, bench, census,
                   cli, hero>>

NextShare ==
    \/ ImportFails("core.dm")
    \/ \E own \in BOOLEAN : ShareCharacter(own)
    \/ \E c \in 1..MaxChars : ShareAddItem(c)
    \/ \E c \in 1..MaxChars : ShareAddGold(c)
    \/ \E c \in 1..MaxChars : ShareTrain(c)
    \/ \E d \in Pair : ShareStart(d)
    \/ \E d \in Pair : SharePlayNext(d)
    \/ \E d \in Pair : ShareRoll(d)
    \/ \E d \in Pair : ShareRecruit(d)
    \/ \E d \in Pair : ShareSave(d)
    \/ \E d \in Pair : ShareLoad(d)

SpecShare == InitShare /\ [][NextShare]_vars

\* ------------------------------------ the Character of models/character.py

\* Ability: the six ability scores.
Abilities == {"STR", "DEX", "CON", "INT", "WIS", "CHA"}

\* The default_factory of Character.abilities.
DefaultAbilities == [a \in Abilities |-> 10]

AbilityChoices == {DefaultAbilities, [DefaultAbilities EXCEPT !["STR"] = 15]}

\* Optional[int]: None or an int.
HpChoices == {[none |-> TRUE, val |-> 0], [none |-> FALSE, val |-> 12]}

HeroNames == {"Lyra", "Borin"}

\* Python's a // b for b > 0: the floor of the quotient.
FloorDiv(a, b) == a \div b

\* Character._sync_proficiency_bonus()
SyncProficiencyBonus(c) ==
    [c EXCEPT !.proficiency_bonus = 2 + FloorDiv(c.level - 1, 4)]

\* Character(name, race, char_class, level, abilities, max_hp), with
\* __post_init__: a level below 1 raises ValueError and there is no object.
ModelsCharacter(name, race, char_class, level, abilities, max_hp) ==
    IF level < 1
    THEN [NoHero EXCEPT !.op = "create", !.asked = level, !.err = "ValueError"]
    ELSE SyncProficiencyBonus(
             [built |-> TRUE, op |-> "create", asked |-> level, err |-> "ok",
              name |-> name, race |-> race, char_class |-> char_class,
              level |-> level, abilities |-> abilities, max_hp |-> max_hp,
              proficiency_bonus |-> 0])

\* CharacterLevelUp without the recalculation of the derived field.
CharacterLevelUpUnsynced(c) ==
    [c EXCEPT !.level = @ + 1, !.op = "level_up"]

\* Character.level_up()
CharacterLevelUp(c) ==
    SyncProficiencyBonus([c EXCEPT !.level = @ + 1, !.op = "level_up"])

\* models/character.py imports under every interpreter of Builds: its
\* annotations are not evaluated (from __future__ import annotations) and
\* its mutable default is made by a default_factory.
InitLevel ==
    /\ build \in {Fresh(py) : py \in Builds}
    /\ dm = NewDM(0)
    /\ run = NoRun
    /\ file = NoFile
    /\ saved = NewDM(0)
    /\ last = Op("init", NoPath, "ok")
    /\ roller = SeedState(0)
    /\ rolled = Idle
    /\ bench = NoBench
    /\ census = NoCensus
    /\ cli = NoCli
    /\ share = NoShare
    /\ hero = NoHero

\* hero = Character(name, "Elf", "Rogue", level, abilities, max_hp)
HeroCreate(name, level, abilities, max_hp) ==
    /\ ~hero.built
    /\ hero' = ModelsCharacter(name, "Elf", "Rogue", level, abilities, max_hp)
    /\ UNCHANGED <<build, dm, run, file, saved, last, roller, rolled, bench, census,
                   cli, share>>

\* hero.level_up()
HeroLevelUp ==
    /\ hero.built
    /\ hero.level < MaxLevel
    /\ hero' = CharacterLevelUp(hero)
    /\ UNCHANGED <<build, dm, run, file, saved, last, roller, rolled, bench, census,
                   cli, share>>

NextLevel ==
    \/ \E name \in HeroNames, level \in -1..MaxLevel,
          abilities \in AbilityChoices, max_hp \in HpChoices :
           HeroCreate(name, level, abilities, max_hp)
    \/ HeroLevelUp

SpecLevel == InitLevel /\ [][NextLevel]_vars

\* ================================================================ claims

\* The Director's states of the spec: Uninitialized, Active, Complete.
Started(d) == ~d.story.none /\ ~d.party.none

SceneCount(d) == Len(d.story.scenes)

Active(d) ==
    Started(d) /\ 0 <= d.current_scene_idx /\ d.current_scene_idx < SceneCount(d)

Complete(d) == Started(d) /\ d.current_scene_idx = SceneCount(d)

\* C1: after start() on a story of N >= 1 scenes and k <= N calls of
\* play_next() with no other operation, the cursor is k, and win_screen was
\* called once if k = N and not at all if k < N.
C1_PlayThrough ==
    (run.calls >= 0 /\ SceneCount(dm) >= 1 /\ run.calls <= SceneCount(dm))
        => /\ dm.current_scene_idx = run.calls
           /\ run.wins = (IF run.calls = SceneCount(dm) THEN 1 ELSE 0)

\* C1's case: a story of two scenes played to its end, the win shown once.
C1_Witness ==
    /\ SceneCount(dm) = 2
    /\ run.calls = 2
    /\ run.wins = 1
    /\ Complete(dm)
    /\ last.op = "play_next" /\ last.won

\* C2 as claimed: play_next() either succeeds or fails with NotStarted
\* (RuntimeError), also when the cursor has reached the scene count (shown
\* on stories that have a scene to play).
C2_OnlyNotStarted ==
    (last.op = "play_next" /\ (Started(dm) => SceneCount(dm) >= 1))
        => last.err \in {"ok", "RuntimeError"}

\* C3 as claimed: play_next() on a Director on which start() was never
\* called and no load() returned raises NotStarted (RuntimeError), changes
\* no field of the Director (party, story, cursor, dice), prints no scene
\* and does not call win_screen.  That covers the Director as constructed
\* and the one a load() that raised has left with some of its fields set.
C3_NotStartedNoChange ==
    [][(last'.op = "play_next" /\ ~run.begun)
          => /\ last'.err = "RuntimeError"
             /\ dm' = dm
             /\ ~last'.entered /\ last'.shown = "" /\ ~last'.won]_vars

\* C4 as claimed: a snapshot of a started Director d, applied to another
\* Director d2, succeeds and leaves d2 with d's party, story, cursor and
\* dice state (and so d's future rolls).
C4_RoundTrip ==
    (last.op = "transfer" /\ Started(dm))
        => /\ last.err = "ok"
           /\ last.d2.party = dm.party
           /\ last.d2.story = dm.story
           /\ last.d2.current_scene_idx = dm.current_scene_idx
           /\ last.d2.dice = dm.dice

\* C5 as claimed: load() of what a started Director saved succeeds and
\* makes party, story, cursor and dice state what they were at the save.
C5_SaveLoadRestores ==
    (last.op = "load" /\ Started(saved))
        => /\ last.err = "ok"
           /\ dm = saved

\* A snapshot's cursor lies in 0..(number of its scenes).
CursorInRange(gs) ==
    /\ 0 <= gs.current_scene_idx
    /\ gs.current_scene_idx <= Len(gs.story_state.scenes)

\* A snapshot of a Director that was never started: no scenes, cursor -1.
Unstarted(gs) == ~gs.story_state.hasScenes /\ gs.current_scene_idx = -1

\* C6 as claimed: every snapshot from_dm/save can produce, that of a
\* Director never started included, and every Director state have
\* 0 <= cursor <= number of scenes.
C6_Original ==
    /\ CursorInRange(FromDm(dm))
    /\ file.exists => CursorInRange(file.doc)
    /\ 0 <= dm.current_scene_idx /\ dm.current_scene_idx <= SceneCount(dm)

\* C6, amended: once a story is set, the Director, its snapshot and the
\* saved document have 0 <= cursor <= number of scenes; a Director never
\* started, and a snapshot of it, have cursor -1 and no scenes.
C6_CursorInRange ==
    /\ IF dm.story.none
       THEN dm.current_scene_idx = -1 /\ Unstarted(FromDm(dm))
       ELSE /\ 0 <= dm.current_scene_idx
            /\ dm.current_scene_idx <= SceneCount(dm)
            /\ CursorInRange(FromDm(dm))
    /\ file.exists => (CursorInRange(file.doc) \/ Unstarted(file.doc))

\* C6's case: a campaign played to its end and saved there.
C6_Witness ==
    /\ Complete(dm) /\ SceneCount(dm) >= 1
    /\ file.exists
    /\ file.doc.story_state.hasScenes
    /\ file.doc.current_scene_idx = Len(file.doc.story_state.scenes)
    /\ file.doc.current_scene_idx >= 1

\* C7: load() of a document without one of the four snapshot fields fails
\* with the TypeError of GameState.from_dict (the snapshot-format error)
\* and the Director keeps party, story, cursor and dice state.
C7_MissingFieldRejected ==
    [][(last'.op = "load_foreign" /\ last'.arg[1] = "without")
          => /\ last'.err = "TypeError"
             /\ dm' = dm]_vars

\* C7's case: a running session refused a document without its cursor.
C7_Witness ==
    /\ last.op = "load_foreign"
    /\ last.arg = <<"without", 3>>
    /\ FieldOrder[3] = "current_scene_idx"
    /\ last.err = "TypeError"
    /\ Active(dm) /\ dm.current_scene_idx = 1

\* C8: start() with loadable content sets the story to the loaded scenes,
\* the party to empty and the cursor to 0, whatever the state before;
\* with content that cannot be loaded it fails and changes nothing.
C8_StartResetsOrFails ==
    [][last'.op = "start"
          => IF last'.arg \in CampaignPaths
             THEN /\ last'.err = "ok"
                  /\ ~dm'.story.none
                  /\ Len(dm'.story.scenes) = last'.arg[2]
                  /\ \A i \in 1..Len(dm'.story.scenes) :
                         dm'.story.scenes[i].id = SceneIds[i]
                  /\ dm'.party = Party(<<>>)
                  /\ dm'.current_scene_idx = 0
             ELSE /\ last'.err # "ok"
                  /\ dm' = dm]_vars

\* C8's case: a session that was saved at its end with a party, started
\* again: the party is empty and the cursor 0.
C8_Witness ==
    /\ last.op = "start" /\ last.err = "ok"
    /\ Complete(saved) /\ SceneCount(saved) >= 1 /\ saved.party.members # <<>>
    /\ file.exists
    /\ dm.party = Party(<<>>) /\ dm.current_scene_idx = 0 /\ SceneCount(dm) >= 1

\* ---------------------------------------------- the dice grammar, as specified

\* The digits of the dice grammar.  The spec writes count, sides and
\* modifier as integers ("2d6+3") and has the same expression valid
\* wherever the program runs, so a numeral is written with 0 to 9.
GrammarDigits == {"0", "1", "2", "3", "4", "5", "6", "7", "8", "9"}

\* e[i..j] is a non-empty run of digits of the grammar.
IsNumeral(e, i, j) == i <= j /\ \A k \in i..j : e[k] \in GrammarDigits

\* The number the numeral e[i..j] writes.
RECURSIVE Decimal(_, _, _)
Decimal(e, i, j) ==
    IF i > j THEN 0
    ELSE (CHOOSE v \in 0..9 : AsciiDigits[v + 1] = e[i]) * 10 ^ (j - i)
             + Decimal(e, i + 1, j)

\* The ways to read e as <count>d<sides>[<+|-><modifier>]: <<a, b>> with
\* the d at a and the sign at b (b = Len(e) + 1: no modifier).
GrammarParses(e) ==
    {p \in (1..Len(e)) \X (1..(Len(e) + 1)) :
        /\ e[p[1]] = "d"
        /\ IsNumeral(e, 1, p[1] - 1)
        /\ IsNumeral(e, p[1] + 1, p[2] - 1)
        /\ \/ p[2] = Len(e) + 1
           \/ e[p[2]] \in {"+", "-"} /\ IsNumeral(e, p[2] + 1, Len(e))}

WellFormed(e) == GrammarParses(e) # {}

CountOf(e, p) == Decimal(e, 1, p[1] - 1)

SidesOf(e, p) == Decimal(e, p[1] + 1, p[2] - 1)

ModifierOf(e, p) ==
    IF p[2] = Len(e) + 1 THEN 0
    ELSE (IF e[p[2]] = "-" THEN -1 ELSE 1) * Decimal(e, p[2] + 1, Len(e))

\* The sum of a list, value by value: v times the number of places holding v.
RECURSIVE SumByValue(_, _)
SumByValue(vals, s) ==
    IF vals = {} THEN 0
    ELSE LET v == CHOOSE x \in vals : TRUE
         IN  v * Cardinality({i \in DOMAIN s : s[i] = v})
               + SumByValue(vals \ {v}, s)

\* C9: for an expression NdS, NdS+M or NdS-M with N >= 1 and S >= 1, roll
\* returns N rolls, each in 1..S, and a total of their sum plus the signed
\* modifier (0 when there is none).
C9_RollResult ==
    rolled.done =>
        \A p \in GrammarParses(rolled.expr) :
            LET N == CountOf(rolled.expr, p)
                S == SidesOf(rolled.expr, p)
                M == ModifierOf(rolled.expr, p)
            IN  (N >= 1 /\ S >= 1)
                    => /\ rolled.err = "ok"
                       /\ Len(rolled.rolls) = N
                       /\ \A i \in 1..N : rolled.rolls[i] \in 1..S
                       /\ rolled.total =
                            SumByValue({rolled.rolls[i] : i \in 1..N}, rolled.rolls) + M

\* C9's case: two dice of two sides rolled 1 and 1, and 2 taken off their
\* sum.
C9_Witness ==
    /\ rolled.done
    /\ rolled.expr = <<"2", "d", "2", "-", "2">>
    /\ rolled.err = "ok"
    /\ rolled.rolls = <<1, 1>>
    /\ rolled.total = 0

\* C10: roll of an expression that is not of the form of the dice grammar
\* raises the ValueError of roll (the invalid-expression error) and leaves
\* the generator state as it was, so the rolls that follow are those that
\* would have followed without the call.
C10_MalformedNoDraw ==
    (rolled.done /\ ~WellFormed(rolled.expr))
        => /\ rolled.err = "ValueError" /\ rolled.raisedBy = "roll"
           /\ roller = rolled.before
           /\ \A e \in SessionExprs :
                  DiceRoll(build.python, e, roller)
                      = DiceRoll(build.python, e, rolled.before)

\* C11: roll accepts only expressions whose count and sides are positive:
\* an expression of the dice grammar with a count of 0 or with 0 sides is
\* refused with the ValueError of roll (the invalid-expression error), and
\* every failure of roll is that error.
C11_PositiveOnly ==
    rolled.done =>
        /\ \A p \in GrammarParses(rolled.expr) :
               (CountOf(rolled.expr, p) = 0 \/ SidesOf(rolled.expr, p) = 0)
                   => (rolled.err = "ValueError" /\ rolled.raisedBy = "roll")
        /\ rolled.err # "ok" => rolled.raisedBy = "roll"

\* C12: two rollers constructed with the same seed and given the same
\* sequence of roll expressions return the same result (exception or total
\* and rolls) at every position of the sequence, however their calls are
\* interleaved.
C12_SameSeedSameRolls ==
    \A k \in 1..Min(Len(bench.outs[1]), Len(bench.outs[2])) :
        bench.outs[1][k] = bench.outs[2][k]

\* C12's case: both rollers made the same three calls, and the results
\* differ from one position to the next.
C12_Witness ==
    /\ Len(bench.outs[1]) = MaxRolls
    /\ Len(bench.outs[2]) = MaxRolls
    /\ bench.outs[1][1].err = "ok"
    /\ bench.outs[2][2].err = "ok"
    /\ bench.outs[1][1] # bench.outs[1][2]

\* C13: after s = get_state(), further rolls and set_state(s), each roll
\* returns what the same call returned when it was first made after s was
\* taken; get_state does not move the generator, so the rolls made right
\* after it are already those of the stream at s.
C13_SetStateReplays ==
    bench.recent.at >= 1
        => bench.recent.out = bench.outs[1][bench.recent.at]

\* C13's case: a state was taken after a roll, two more rolls were made,
\* the state was put back and the second of the two was rolled again.
C13_Witness ==
    /\ ~bench.snap.none
    /\ bench.mark >= 1
    /\ bench.recent.again
    /\ bench.recent.at = bench.mark + 2
    /\ bench.recent.out.err = "ok"
    /\ bench.outs[1][bench.mark + 1].err = "ok"
    /\ bench.outs[1][bench.mark + 1] # bench.recent.out

\* C14: any_alive() is true exactly when some member of the party has
\* hp > 0: false for the empty party, false when every member has hp <= 0.
C14_AnyAlive ==
    census.asked =>
        /\ census.alive <=>
              (\E i \in DOMAIN census.members : census.members[i].hp > 0)
        /\ census.members = <<>> => ~census.alive
        /\ (\A i \in DOMAIN census.members : census.members[i].hp <= 0)
              => ~census.alive

\* C14's case: a party whose members are at 0 and below is not alive.
C14_Witness ==
    /\ census.asked
    /\ Len(census.members) >= 2
    /\ census.members[1].hp = 0
    /\ census.members[2].hp < 0
    /\ \A i \in DOMAIN census.members : census.members[i].hp <= 0
    /\ ~census.alive

\* C15: a play_next() that succeeds adds exactly 1 to the cursor and
\* changes nothing else of the Director: the story's scenes, the party and
\* the dice are as before, whatever monsters and choices the entered scene
\* has.
C15_AdvanceOnlyCursor ==
    [][(last'.op = "play_next" /\ last'.err = "ok")
           => /\ dm'.current_scene_idx = dm.current_scene_idx + 1
              /\ dm'.story = dm.story
              /\ dm'.party = dm.party
              /\ dm'.dice = dm.dice]_vars

\* C15's case: a Director with a member in its party entered the scene
\* that has monsters and choices.
C15_Witness ==
    /\ last.op = "play_next"
    /\ last.err = "ok"
    /\ last.shown = "room1"
    /\ dm.current_scene_idx = 2
    /\ dm.party.members # <<>>

\* C16: load() is all-or-nothing: when it raises, the Director's party,
\* story, cursor and dice are what they were before the call.
C16_LoadAllOrNothing ==
    [][(last'.op \in {"load", "load_foreign"} /\ last'.err # "ok")
           => dm' = dm]_vars

\* C17: in the interactive loop every input takes one of the branches
\* advance, save, quit, and the loop ends only through a quit command:
\* neither a save or an advance right after start nor an advance after the
\* story is complete ends it with an exception.  (The end of the input
\* itself, where input() raises, is not one of the inputs.)
C17_LoopEndsOnlyByQuit ==
    /\ cli.did \in {"", "start", "input", "play_next", "save", "quit"}
    /\ (cli.pc = "ended" /\ cli.did # "input")
           => (cli.by = "quit" /\ cli.did = "quit")

\* C18 as claimed: instances are isolated: an operation on one Director
\* (start, play_next, load, a roll, and with them save and the adding of a
\* member) leaves the dice, party, story and cursor of the other as they
\* were, also when it loads what the other saved; and adding an item or
\* gold to one Character's inventory or changing its stats leaves every
\* other Character as it was, Characters made with the default stats and
\* inventory included.
C18_InstancesIsolated ==
    [][/\ share'.did.op \in {"start", "play_next", "load", "roll", "save",
                             "recruit"}
           => \A d \in DOMAIN share.directors :
                  d # share'.did.who
                      => share'.directors[d] = share.directors[d]
       /\ share'.did.op \in {"add_item", "add_gold", "train"}
           => \A c \in DOMAIN share.chars :
                  c # share'.did.who
                      => CharView(share', c) = CharView(share, c)]_vars

\* C19: for the Character of models/character.py, construction with a
\* level below 1 is refused with ValueError and only then; after
\* construction and after every level_up() the level is at least 1 and
\* proficiency_bonus is 2 plus the floor of (level - 1) / 4; level_up adds
\* exactly 1 to the level and leaves name, race, class, abilities and
\* max_hp as they were.
C19_LevelAndProficiency ==
    [][/\ hero'.op = "create"
           => /\ hero'.asked < 1 <=> hero'.err = "ValueError"
              /\ hero'.err = "ValueError" <=> ~hero'.built
       /\ hero'.built
           => /\ hero'.level >= 1
              /\ \E q \in 0..hero'.level :
                     /\ 4 * q <= hero'.level - 1
                     /\ hero'.level - 1 < 4 * (q + 1)
                     /\ hero'.proficiency_bonus = 2 + q
       /\ hero'.op = "level_up"
           => /\ hero'.level = hero.level + 1
              /\ hero'.name = hero.name
              /\ hero'.race = hero.race
              /\ hero'.char_class = hero.char_class
              /\ hero'.abilities = hero.abilities
              /\ hero'.max_hp = hero.max_hp]_vars

\* C19's case: a Character with its own abilities and hit points reached
\* level 5 by level_up, where the proficiency bonus goes from 2 to 3.
C19_Witness ==
    /\ hero.built
    /\ hero.op = "level_up"
    /\ hero.level = 5
    /\ hero.proficiency_bonus = 3
    /\ ~hero.max_hp.none
    /\ hero.abilities # DefaultAbilities

====
